---- MODULE Spec2Model ----
(***************************************************************************)
(* The crash-round engine (gameEngine.js) and the provably-fair server     *)
(* glue around it (server.js), as a state machine.                         *)
(*                                                                         *)
(* Units: time is in milliseconds, multipliers and crash points are in     *)
(* hundredths (1.50 is 150), money is in hundredths (10.00 is 1000).       *)
(* Node runs every synchronous function to completion, so each engine call *)
(* and each timer callback is one action; an async handler is cut into one *)
(* action per await.                                                       *)
(***************************************************************************)
EXTENDS Integers, Sequences, FiniteSets, TLC

(* ------------------------------ bounds --------------------------------- *)

\* rounds the engine may create in one run
MaxRounds == 2
\* cashOut calls recorded per player and round
MaxCalls == 2
\* callers of ensureNextCommitExists, one call each
MaxCallers == 3
\* rows of seed_commits beyond which the process is not started again
MaxCommits == 3
\* calls of deriveSeedForIdx recorded per index
MaxDerives == 2
\* milliseconds since startedAt up to which computeMultiplier is called on its own
MaxElapsed == 130
\* route handlers (requests) that may be in flight at once
MaxHandlers == 3

Players == {"p1", "p2"}
\* bet amounts offered to joinRound (10.00, 0.07 and the invalid 0)
BetInputs == {1000, 7, 0}
\* pairs of Math.random() draws <<r, u>> of generateCrashPoint, in thousandths:
\* they give the crash points 1.10 and 1.50
RandomDraws == {<<0, 0>>, <<0, 667>>}
\* pairs of draws over both branches of generateCrashPoint, from the lowest draw to
\* draws just below 1: they give 1.10, 1.50, 1.69, 1.70, 2.00, 4.00, 4.99 and 5.00
CrashDraws == {<<0, 0>>, <<0, 667>>, <<0, 991>>, <<0, 992>>, <<699, 999>>,
               <<700, 0>>, <<700, 667>>, <<700, 996>>, <<999, 999>>}
\* elapsed times since startedAt at which callers look at the round
ElapsedSteps == {96, 200, 600}
\* the same for the broadcast loop and the one client of the server
BroadcastSteps == {96}
\* values of Date.now() at which a round is started when computeMultiplier is called
\* on its own
StartTimes == {0, 7}
\* indices deriveSeedForIdx is called with on its own
DeriveIdxs == {1, 2}
\* the callers of ensureNextCommitExists that run beside these calls
DeriveCallers == {1, 2}
\* the client of the server and its bet
ServerPlayers == {"p1"}
ServerBets == {1000}

(* --------------------------- program constants ------------------------- *)

NEXT_ROUND_DELAY_MS == 5000
MIN_CRASH_DELAY_MS == 100
BRANCH_THRESHOLD == 700

NoTime == 0 - 1
NoAmount == 0 - 1
NoTimer == [kind |-> "none", roundId |-> 0, fireAt |-> 0]
NoSeed == [kind |-> "null", n |-> 0]
NoRound == [roundId |-> 0]
NoRet == [op |-> "none", player |-> "", val |-> [none |-> TRUE]]
NoCommitIdx == 0

(* ------------------------------ helpers -------------------------------- *)

Max(a, b) == IF a >= b THEN a ELSE b

\* crypto.createHash('sha256').update(s).digest('hex'): collision-free digest
Sha256Hex(s) == [sha |-> s]

NoHash == Sha256Hex([kind |-> "undefined", n |-> 0])

\* crypto.randomBytes(32).toString('hex'): the k-th fresh draw of the process
RandomBytes(k) == [kind |-> "rand", n |-> k]

\* Number(x.toFixed(2)) of a value given in 1/10000: nearest hundredth
ToFixed2(x10000) == (x10000 + 50) \div 100

\* generateCrashPoint: r and u are the two Math.random() draws, in thousandths
generateCrashPoint(r, u) ==
    IF r < BRANCH_THRESHOLD
    THEN ToFixed2(11000 + 6 * u)
    ELSE ToFixed2(20000 + 30 * u)

crashDelayFromPoint(crashPoint) == Max(MIN_CRASH_DELAY_MS, (crashPoint - 100) * 10)

\* elapsed times up to MaxElapsed at which the double 1 + elapsedMs / 1000 lies just
\* below the middle of two hundredths, so that toFixed(2) answers the lower one
\* (1.005, ..., 1.115; 1.125 is 9/8 exactly and toFixed answers the upper one)
TiesBelow == {5, 15, 25, 35, 45, 55, 65, 75, 85, 95, 105, 115}

\* a computeMultiplier with the operands of the subtraction exchanged
computeMultiplierBackwards(startedAt, t) == ToFixed2(10000 + (startedAt - t) * 10)

\* computeMultiplier at time t: 1 + elapsedMs / 1000, to 2 decimals
computeMultiplierAt(startedAt, t) ==
    IF (t - startedAt) \in TiesBelow
    THEN (10000 + (t - startedAt) * 10) \div 100
    ELSE ToFixed2(10000 + (t - startedAt) * 10)

\* a computePayout that cuts the product off at 2 decimals instead of rounding it
computePayoutTruncated(betAmount, multiplier) == (betAmount * multiplier) \div 100

\* computePayout: betAmount * multiplier, to 2 decimals
computePayout(betAmount, multiplier) == ToFixed2(betAmount * multiplier)

\* logger.error(line, ...) about round roundId
ErrorLine(line, roundId) == [line |-> line, roundId |-> roundId]

VARIABLES
    now,            \* Date.now()
    disposed,       \* gameEngine.js: let disposed
    currentRound,   \* gameEngine.js: let currentRound (NoRound is null)
    timers,         \* pending setTimeout handles of the engine
    roundSeq,       \* rounds created so far (crypto.randomUUID() is the next one)
    rndSeq,         \* crypto.randomBytes draws made so far
    nextSeed,       \* the seed handed to the engine by setNextSeed
    ret,            \* what the call that just ran returned or threw
    hist,           \* per player: outcomes of the cashOut calls of this round
    fx,             \* per round: how often each crash side effect happened
    seedMaster,     \* server.js: whether SEED_MASTER is configured
    derived,        \* per idx: what the calls deriveSeedForIdx(idx) made on their own returned
    errorLog,       \* what the program has written with logger.error
    consumed,       \* the commitIdx of every round created so far, in order of creation
    seedCommits,    \* table seed_commits
    rounds,         \* table rounds, keyed by round_id
    broadcasts,     \* what io.emit has sent to the clients
    listening,      \* whether attachEngineListeners has subscribed to the emitter
    threads,        \* async functions of server.js waiting on a db.query
    ensured,        \* per caller: its call of ensureNextCommitExists, as far as it got
    users,          \* table users: the balance of every user
    bets,           \* table bets
    payments,       \* table payments, keyed by mtn_transaction_id
    handlers,       \* the requests the route handlers are working on, each as far as it got
    cashoutTimestamps  \* game.js: the rate limiter's map of the last cashout attempt per user

vars == <<now, disposed, currentRound, timers, roundSeq, rndSeq, nextSeed, ret, hist, fx,
          seedMaster, derived, errorLog, consumed, seedCommits, rounds, broadcasts, listening, threads, ensured,
          users, bets, payments, handlers, cashoutTimestamps>>

dbVars == <<seedCommits, rounds>>

\* the users who send requests
RouteUsers == {"p1"}

HandlerIds == 1 .. MaxHandlers

\* a handler slot no request has arrived on
IdleHandler == [pc |-> "idle"]

\* the state of the routes (game.js, payments.js), which the engine never touches
routeVars == <<users, bets, payments, handlers, cashoutTimestamps>>

\* the state of the engine and of server.js, which the payment routes never touch
programVars == <<now, disposed, currentRound, timers, roundSeq, rndSeq, nextSeed, ret, hist,
                 fx, seedMaster, derived, errorLog, consumed, seedCommits, rounds, broadcasts,
                 listening, threads, ensured>>

computeMultiplier(startedAt) == computeMultiplierAt(startedAt, now)

CrashTimer(roundId, startedAt, crashPoint) ==
    [kind |-> "crash", roundId |-> roundId, fireAt |-> startedAt + crashDelayFromPoint(crashPoint)]

\* a markRoundCrashed that arms no timer for the next round
NextRoundTimerUnarmed(round) == NoTimer

NextRoundTimer(round) ==
    [kind |-> "next", roundId |-> round.roundId, fireAt |-> now + NEXT_ROUND_DELAY_MS]

NoNextSeed == [seed |-> NoSeed, seedHash |-> NoHash, commitIdx |-> NoCommitIdx]

NoHist == [p \in Players |-> <<>>]

NoFx == [crashed |-> 0, armed |-> 0, emitted |-> 0, persisted |-> 0, broadcast |-> 0]

RoundIds == 1 .. MaxRounds

(* ------------------- engine events (emitter of the engine) ------------- *)

\* the async roundStarted listener of server.js, started by emitter.emit with the
\* round as its argument r: it runs up to the db.query of persistRoundStart
StartedThread(r) ==
    [kind |-> "roundStarted", pc |-> "persistRoundStart", roundId |-> r.roundId,
     r |-> [roundId |-> r.roundId, commitIdx |-> r.commitIdx, crashPoint |-> r.crashPoint,
            serverSeedHash |-> r.serverSeedHash, serverSeed |-> r.serverSeed,
            startedAt |-> r.startedAt, endedAt |-> NoTime],
     nextIdx |-> 0, seedHash |-> NoHash]

\* the async roundCrashed listener: it runs up to the db.query of persistRoundCrash
CrashedThread(r) ==
    [kind |-> "roundCrashed", pc |-> "persistRoundCrash", roundId |-> r.roundId,
     r |-> [roundId |-> r.roundId, commitIdx |-> r.commitIdx, crashPoint |-> r.crashPoint,
            serverSeedHash |-> r.serverSeedHash, serverSeed |-> r.serverSeed,
            startedAt |-> r.startedAt, endedAt |-> r.endedAt],
     nextIdx |-> 0, seedHash |-> NoHash]

\* emitter.emit('roundStarted', round): the listeners it starts
EmitRoundStarted(r, attached) == IF attached THEN {StartedThread(r)} ELSE {}

\* emitter.emit('roundCrashed', round): the listeners it starts
EmitRoundCrashed(r, attached) == IF attached THEN {CrashedThread(r)} ELSE {}

(* ----------------------------- the engine ------------------------------ *)

\* the seed of a new round: the one setNextSeed supplied, or else the engine's own
TakeSeed(supplied, drawn) ==
    IF supplied # NoNextSeed
    THEN [seed |-> supplied.seed, seedHash |-> supplied.seedHash,
          commitIdx |-> supplied.commitIdx, drawn |-> drawn]
    ELSE [seed |-> RandomBytes(drawn + 1), seedHash |-> Sha256Hex(RandomBytes(drawn + 1)),
          commitIdx |-> NoCommitIdx, drawn |-> drawn + 1]

\* the round object createNewRound builds
NewRound(roundId, crashPoint, s) ==
    [roundId |-> roundId, commitIdx |-> s.commitIdx, crashPoint |-> crashPoint,
     serverSeed |-> s.seed, serverSeedHash |-> s.seedHash,
     status |-> "running", startedAt |-> now, endedAt |-> NoTime, locked |-> FALSE,
     players |-> <<>>,
     timer |-> CrashTimer(roundId, now, crashPoint), nextRoundTimer |-> NoTimer]

\* the timers createNewRound clears on the round it replaces
PriorTimers(prior) == IF prior = NoRound THEN {} ELSE {prior.timer, prior.nextRoundTimer}

\* the engine and its listeners as a synchronous caller of createNewRound leaves them
AtCall(prior, pending, supplied, drawn, waiting, attached) ==
    [prior |-> prior, pending |-> pending, supplied |-> supplied, drawn |-> drawn,
     waiting |-> waiting, attached |-> attached]

\* createNewRound() when the engine is not disposed; d are its Math.random() draws
createNewRound(at, d) ==
    LET s == TakeSeed(at.supplied, at.drawn)
        round == NewRound(roundSeq + 1, generateCrashPoint(d[1], d[2]), s)
    IN  /\ roundSeq < MaxRounds
        /\ roundSeq' = roundSeq + 1
        /\ rndSeq' = s.drawn
        /\ nextSeed' = NoNextSeed
        /\ currentRound' = round
        /\ timers' = (at.pending \ PriorTimers(at.prior)) \cup {round.timer}
        /\ hist' = NoHist
        /\ consumed' = Append(consumed, round.commitIdx)
        /\ threads' = at.waiting \cup EmitRoundStarted(round, at.attached)

\* a markRoundCrashed that stops the timer and stamps endedAt but leaves the status
CrashedRoundStillRunning(round, armNext) ==
    [round EXCEPT !.locked = TRUE, !.endedAt = now, !.timer = NoTimer,
                  !.nextRoundTimer = IF armNext THEN NextRoundTimer(round) ELSE @]

\* a markRoundCrashed that also stamps the multiplier it saw as the crash point
CrashedRoundAtMultiplier(round, armNext) ==
    [round EXCEPT !.status = "crashed", !.locked = TRUE, !.endedAt = now,
                  !.timer = NoTimer,
                  !.crashPoint = computeMultiplier(round.startedAt),
                  !.nextRoundTimer = IF armNext THEN NextRoundTimer(round) ELSE @]

\* a markRoundCrashed that also empties the player map
CrashedRoundClearingPlayers(round, armNext) ==
    [round EXCEPT !.status = "crashed", !.locked = TRUE, !.endedAt = now,
                  !.timer = NoTimer, !.players = <<>>,
                  !.nextRoundTimer = IF armNext THEN NextRoundTimer(round) ELSE @]

\* the fields markRoundCrashed writes on the round
CrashedRound(round, armNext) ==
    [round EXCEPT !.status = "crashed", !.locked = TRUE, !.endedAt = now,
                  !.timer = NoTimer,
                  !.nextRoundTimer = IF armNext THEN NextRoundTimer(round) ELSE @]

\* a markRoundCrashed that forgets the handle of the crash timer without clearing it
CrashTimerLeftArmed(round, pending) == pending

\* clearTimeout(round.timer) of markRoundCrashed
ClearedCrashTimer(round, pending) == pending \ {round.timer}

\* markRoundCrashed(round), round being currentRound; pending are the timers left
markRoundCrashed(round, pending) ==
    IF round = NoRound \/ round.status = "crashed"
    THEN /\ UNCHANGED <<currentRound, fx, threads>>
         /\ timers' = pending
    ELSE LET armNext == round.nextRoundTimer = NoTimer /\ ~disposed
             crashed == CrashedRound(round, armNext)
         IN  /\ currentRound' = crashed
             /\ timers' = ClearedCrashTimer(round, pending)
                            \cup (IF armNext THEN {crashed.nextRoundTimer} ELSE {})
             /\ fx' = [fx EXCEPT ![round.roundId].crashed = @ + 1,
                                 ![round.roundId].emitted = @ + 1,
                                 ![round.roundId].armed = @ + (IF armNext THEN 1 ELSE 0)]
             /\ threads' = threads \cup EmitRoundCrashed(crashed, listening)

Returned(op, p, v) == [op |-> op, player |-> p, val |-> v]

Threw(op, p, message) == [op |-> op, player |-> p, val |-> [error |-> message]]

\* the snapshot getRoundStatus returns for a round
StatusSnapshot(round, multiplier) ==
    [roundId |-> round.roundId, status |-> round.status, multiplier |-> multiplier,
     startedAt |-> round.startedAt, endedAt |-> round.endedAt,
     serverSeedHash |-> round.serverSeedHash]

\* a status query that treats a multiplier equal to the crash point as still running
ThresholdReachedStrictly(round, multiplier) == multiplier > round.crashPoint

\* the test by which getRoundStatus finds a running round to be past its crash point
ThresholdReached(round, multiplier) == multiplier >= round.crashPoint

engineGetRoundStatus ==
    /\ UNCHANGED <<now, disposed, roundSeq, rndSeq, nextSeed, hist,
                   seedMaster, derived, errorLog, consumed, ensured, seedCommits, rounds, broadcasts, listening>>
    /\ IF currentRound = NoRound
       THEN /\ ret' = Returned("getRoundStatus", "", [status |-> "waiting"])
            /\ UNCHANGED <<currentRound, timers, fx, threads>>
       ELSE IF currentRound.status = "running"
       THEN IF ThresholdReached(currentRound, computeMultiplier(currentRound.startedAt))
            THEN /\ markRoundCrashed(currentRound, timers)
                 /\ ret' = Returned("getRoundStatus", "",
                                    StatusSnapshot(currentRound', currentRound.crashPoint))
            ELSE /\ UNCHANGED <<currentRound, timers, fx, threads>>
                 /\ ret' = Returned("getRoundStatus", "",
                                    StatusSnapshot(currentRound,
                                                   computeMultiplier(currentRound.startedAt)))
       ELSE /\ UNCHANGED <<currentRound, timers, fx, threads>>
            /\ ret' = Returned("getRoundStatus", "",
                               StatusSnapshot(currentRound, currentRound.crashPoint))

\* getRoundStatus() called on its own: the state of the routes stays as it is
getRoundStatus ==
    /\ engineGetRoundStatus
    /\ UNCHANGED routeVars

\* the position joinRound inserts
NewPosition(betAmount) ==
    [betAmount |-> betAmount, cashedOut |-> FALSE, payout |-> NoAmount,
     cashedAt |-> NoTime, cashedMultiplier |-> NoAmount]

\* a join response that also carries the crash point
JoinResponseWithCrashPoint(round) ==
    [roundId |-> round.roundId, serverSeedHash |-> round.serverSeedHash,
     startedAt |-> round.startedAt, crashPoint |-> round.crashPoint]

\* undefined, what players.get answers for a player who is not in the map
NoPosition ==
    [betAmount |-> NoAmount, cashedOut |-> FALSE, payout |-> NoAmount,
     cashedAt |-> NoTime, cashedMultiplier |-> NoAmount]

\* a lookup that answers a settled position for a player who is not in the map
PositionOfOrSettled(round, playerId) ==
    IF playerId \in DOMAIN round.players THEN round.players[playerId]
    ELSE [NoPosition EXCEPT !.cashedOut = TRUE]

\* currentRound.players.get(playerId)
PositionOf(round, playerId) ==
    IF playerId \in DOMAIN round.players THEN round.players[playerId] ELSE NoPosition

\* what joinRound returns on success
JoinResponse(round) ==
    [roundId |-> round.roundId, serverSeedHash |-> round.serverSeedHash,
     startedAt |-> round.startedAt]

(* JavaScript values a caller may pass as betAmount *)
JsNumber(n) == [type |-> "number", n |-> n]
JsInfinity == [type |-> "infinity", n |-> 0]
JsNaN == [type |-> "nan", n |-> 0]
JsUndefined == [type |-> "undefined", n |-> 0]

\* !v
Falsy(v) == v.type \in {"undefined", "nan"} \/ (v.type = "number" /\ v.n = 0)

\* isNaN(v), which converts v to a number first
IsNaN(v) == v.type \in {"undefined", "nan"}

\* Number(v) <= 0: false for NaN and for Infinity
NotPositive(v) == v.type = "number" /\ v.n <= 0

\* Infinity, as an amount above every finite one
Infinity == 2000000000

\* Number(v) of a value that passed the validation
Number(v) == IF v.type = "infinity" THEN Infinity ELSE v.n

\* !betAmount || isNaN(betAmount) || Number(betAmount) <= 0
InvalidBet(betAmount) == Falsy(betAmount) \/ IsNaN(betAmount) \/ NotPositive(betAmount)

\* a round test that only looks whether there is a round
NotRunningIfMissing(round) == round = NoRound

\* !currentRound || currentRound.status !== 'running'
NotRunning(round) == round = NoRound \/ round.status # "running"

\* a membership test that lets a player who has cashed out join again
AlreadyJoinedUnlessCashedOut(round, playerId) ==
    playerId \in DOMAIN round.players /\ ~round.players[playerId].cashedOut

\* currentRound.players.has(playerId)
AlreadyJoined(round, playerId) == playerId \in DOMAIN round.players

engineJoinRound(playerId, betAmount) ==
    /\ UNCHANGED <<now, disposed, timers, roundSeq, rndSeq, nextSeed, hist, fx,
                   seedMaster, derived, errorLog, consumed, ensured, seedCommits, rounds, broadcasts, listening, threads>>
    /\ IF NotRunning(currentRound)
       THEN /\ ret' = Threw("joinRound", playerId, "No active running round")
            /\ UNCHANGED currentRound
       ELSE IF playerId = ""
       THEN /\ ret' = Threw("joinRound", playerId, "playerId required")
            /\ UNCHANGED currentRound
       ELSE IF InvalidBet(betAmount)
       THEN /\ ret' = Threw("joinRound", playerId, "Invalid bet amount")
            /\ UNCHANGED currentRound
       ELSE IF AlreadyJoined(currentRound, playerId)
       THEN /\ ret' = Threw("joinRound", playerId, "Player already joined this round")
            /\ UNCHANGED currentRound
       ELSE /\ currentRound' = [currentRound EXCEPT
                                  !.players = (playerId :> NewPosition(Number(betAmount))) @@ @]
            /\ ret' = Returned("joinRound", playerId, JoinResponse(currentRound))

\* joinRound called on its own: the state of the routes stays as it is
joinRound(playerId, betAmount) ==
    /\ engineJoinRound(playerId, betAmount)
    /\ UNCHANGED routeVars

\* a crash test that lets a cashOut at exactly the crash point through
CrashObservedLate(round, multiplier) ==
    multiplier > round.crashPoint \/ round.status # "running"

\* the loss branch of cashOut is taken
CrashObserved(round, multiplier) ==
    multiplier >= round.crashPoint \/ round.status # "running"

\* a winning cashOut that books the payout but does not set cashedOut
CashedPositionUnlatched(player, multiplier) ==
    [player EXCEPT !.payout = computePayout(player.betAmount, multiplier),
                   !.cashedAt = now,
                   !.cashedMultiplier = multiplier]

\* a winning cashOut that books the payout over the bet amount
CashedPositionOverBet(player, multiplier) ==
    [player EXCEPT !.cashedOut = TRUE,
                   !.betAmount = computePayout(player.betAmount, multiplier),
                   !.payout = computePayout(player.betAmount, multiplier),
                   !.cashedAt = now,
                   !.cashedMultiplier = multiplier]

\* the position after a winning cashOut
CashedPosition(player, multiplier) ==
    [player EXCEPT !.cashedOut = TRUE,
                   !.payout = computePayout(player.betAmount, multiplier),
                   !.cashedAt = now,
                   !.cashedMultiplier = multiplier]

\* what a lost cashOut returns
LossResult(round) == [win |-> FALSE, payout |-> 0, multiplier |-> round.crashPoint]

\* what a won cashOut returns
WinResult(player, multiplier) ==
    [win |-> TRUE, payout |-> computePayout(player.betAmount, multiplier),
     multiplier |-> multiplier]

engineCashOut(playerId) ==
    /\ UNCHANGED <<now, disposed, roundSeq, rndSeq, nextSeed,
                   seedMaster, derived, errorLog, consumed, ensured, seedCommits, rounds, broadcasts, listening>>
    /\ IF currentRound = NoRound
       THEN /\ ret' = Threw("cashOut", playerId, "No active round")
            /\ UNCHANGED <<currentRound, timers, hist, fx, threads>>
       ELSE IF PositionOf(currentRound, playerId) = NoPosition
       THEN /\ ret' = Threw("cashOut", playerId, "Player not in round")
            /\ UNCHANGED <<currentRound, timers, hist, fx, threads>>
       ELSE /\ Len(hist[playerId]) < MaxCalls
            /\ LET player == PositionOf(currentRound, playerId)
                   multiplier == computeMultiplier(currentRound.startedAt)
               IN  IF player.cashedOut
                   THEN /\ ret' = Threw("cashOut", playerId, "Already cashed out")
                        /\ hist' = [hist EXCEPT ![playerId] = Append(@, "already")]
                        /\ UNCHANGED <<currentRound, timers, fx, threads>>
                   ELSE IF CrashObserved(currentRound, multiplier)
                   THEN /\ markRoundCrashed(currentRound, timers)
                        /\ ret' = Returned("cashOut", playerId, LossResult(currentRound'))
                        /\ hist' = [hist EXCEPT ![playerId] = Append(@, "loss")]
                   ELSE /\ currentRound' = [currentRound EXCEPT !.players[playerId] =
                                              CashedPosition(player, multiplier)]
                        /\ ret' = Returned("cashOut", playerId, WinResult(player, multiplier))
                        /\ hist' = [hist EXCEPT ![playerId] = Append(@, "win")]
                        /\ UNCHANGED <<timers, fx, threads>>

\* cashOut called on its own: the state of the routes stays as it is
cashOut(playerId) ==
    /\ engineCashOut(playerId)
    /\ UNCHANGED routeVars

\* the line dispose() writes to the log
DisposeLog ==
    IF disposed THEN "game.dispose.already_disposed"
    ELSE IF currentRound = NoRound THEN "game.dispose.no_current_round"
    ELSE "game.dispose.completed"

\* a dispose() that throws when the engine is disposed already
DisposeReturnThrowing ==
    IF disposed THEN Threw("dispose", "", "already disposed")
    ELSE Returned("dispose", "", [done |-> TRUE, logged |-> DisposeLog])

\* dispose() returns nothing, after its log line
DisposeReturn == Returned("dispose", "", [done |-> TRUE, logged |-> DisposeLog])

\* a dispose() that leaves the timers of the round armed
DisposedTimersKept == timers

\* the timers left once dispose() has cleared those of the current round
DisposedTimers == timers \ {currentRound.timer, currentRound.nextRoundTimer}

dispose ==
    /\ UNCHANGED <<now, roundSeq, rndSeq, nextSeed, fx,
                   seedMaster, routeVars, derived, errorLog, consumed, ensured, seedCommits, rounds, broadcasts, listening, threads>>
    /\ ret' = DisposeReturn
    /\ disposed' = TRUE
    /\ currentRound' = NoRound
    /\ IF disposed \/ currentRound = NoRound
       THEN UNCHANGED <<timers, hist>>
       ELSE /\ timers' = DisposedTimers
            /\ hist' = NoHist

(* ------------------------------- timers -------------------------------- *)

\* the callback of the auto-crash timer armed by createNewRound
CrashTimerFires(t) ==
    /\ t \in timers
    /\ t.kind = "crash"
    /\ now >= t.fireAt
    /\ UNCHANGED <<now, disposed, roundSeq, rndSeq, nextSeed, hist,
                   seedMaster, routeVars, derived, errorLog, consumed, ensured, seedCommits, rounds, broadcasts, listening>>
    /\ ret' = NoRet
    /\ IF currentRound # NoRound /\ currentRound.status = "running"
       THEN markRoundCrashed(currentRound, timers \ {t})
       ELSE /\ timers' = timers \ {t}
            /\ UNCHANGED <<currentRound, fx, threads>>

\* a next-round timer that stays armed after its callback ran (as setInterval would)
NextRoundTimerRepeats(t, d) ==
    /\ t \in timers
    /\ t.kind = "next"
    /\ now >= t.fireAt
    /\ UNCHANGED <<now, disposed, fx, seedMaster, routeVars, derived, errorLog, ensured, seedCommits, rounds, broadcasts, listening>>
    /\ ret' = NoRet
    /\ IF disposed
       THEN /\ timers' = timers
            /\ currentRound' = IF currentRound # NoRound /\ currentRound.roundId = t.roundId
                               THEN NoRound ELSE currentRound
            /\ UNCHANGED <<roundSeq, rndSeq, nextSeed, hist, threads, consumed>>
       ELSE createNewRound(AtCall(IF currentRound # NoRound
                                        /\ currentRound.roundId = t.roundId
                                     THEN NoRound ELSE currentRound,
                                     timers, nextSeed, rndSeq, threads, listening), d)

\* the callback of the next-round timer armed by markRoundCrashed
NextRoundTimerFires(t, d) ==
    /\ t \in timers
    /\ t.kind = "next"
    /\ now >= t.fireAt
    /\ UNCHANGED <<now, disposed, fx, seedMaster, routeVars, derived, errorLog, ensured, seedCommits, rounds, broadcasts, listening>>
    /\ ret' = NoRet
    /\ IF disposed
       THEN /\ timers' = timers \ {t}
            /\ currentRound' = IF currentRound # NoRound /\ currentRound.roundId = t.roundId
                               THEN NoRound ELSE currentRound
            /\ UNCHANGED <<roundSeq, rndSeq, nextSeed, hist, threads, consumed>>
       ELSE createNewRound(AtCall(IF currentRound # NoRound
                                        /\ currentRound.roundId = t.roundId
                                     THEN NoRound ELSE currentRound,
                                     timers \ {t}, nextSeed, rndSeq, threads, listening), d)

\* createNewRound() throwing at crypto.randomBytes: the timers of the prior round are
\* cleared already (lines 103-116), currentRound is not assigned yet
createNewRoundThrows(at) ==
    /\ currentRound' = IF at.prior = NoRound THEN NoRound
                       ELSE [at.prior EXCEPT !.timer = NoTimer, !.nextRoundTimer = NoTimer]
    /\ timers' = at.pending \ PriorTimers(at.prior)
    /\ UNCHANGED <<roundSeq, rndSeq, nextSeed, hist, threads>>

\* the callback of the next-round timer when createNewRound() throws: the catch of the
\* callback logs game.round.schedule_next_error
NextRoundTimerFiresAndThrows(t) ==
    /\ t \in timers
    /\ t.kind = "next"
    /\ now >= t.fireAt
    /\ ~disposed
    /\ UNCHANGED <<now, disposed, fx, seedMaster, routeVars, derived, consumed, ensured, seedCommits, rounds, broadcasts,
                   listening>>
    /\ ret' = NoRet
    /\ errorLog' = errorLog \cup {ErrorLine("game.round.schedule_next_error", t.roundId)}
    /\ createNewRoundThrows(AtCall(IF currentRound # NoRound
                                      /\ currentRound.roundId = t.roundId
                                   THEN NoRound ELSE currentRound,
                                   timers \ {t}, nextSeed, rndSeq, threads, listening))

\* the instants the model lets the clock stop at
TickTargets(steps) ==
    {t.fireAt : t \in timers}
        \cup (IF currentRound = NoRound THEN {}
              ELSE {currentRound.startedAt + e : e \in steps})

Tick(t) ==
    /\ t > now
    /\ now' = t
    /\ ret' = NoRet
    /\ UNCHANGED <<disposed, currentRound, timers, roundSeq, rndSeq, nextSeed, hist, fx,
                   seedMaster, routeVars, derived, errorLog, consumed, ensured, seedCommits, rounds, broadcasts, listening, threads>>

\* time passes between two calls of computeMultiplier
Elapse(t) ==
    /\ currentRound # NoRound
    /\ t > now
    /\ t <= currentRound.startedAt + MaxElapsed
    /\ now' = t
    /\ UNCHANGED <<disposed, currentRound, timers, roundSeq, rndSeq, nextSeed, ret, hist, fx,
                   seedMaster, routeVars, derived, errorLog, consumed, ensured, seedCommits, rounds,
                   broadcasts, listening, threads>>

\* computeMultiplier(currentRound.startedAt) is called and returns
CallComputeMultiplier ==
    /\ currentRound # NoRound
    /\ ret' = Returned("computeMultiplier", "",
                       [multiplier |-> computeMultiplier(currentRound.startedAt), at |-> now])
    /\ UNCHANGED <<now, disposed, currentRound, timers, roundSeq, rndSeq, nextSeed, hist, fx,
                   seedMaster, routeVars, derived, errorLog, consumed, ensured, seedCommits, rounds,
                   broadcasts, listening, threads>>

(* ------------------------------ server.js ------------------------------ *)

NoPayload == [roundId |-> 0, commitIdx |-> NoCommitIdx, crashPoint |-> 0,
              serverSeedHash |-> NoHash, serverSeed |-> NoSeed,
              startedAt |-> NoTime, endedAt |-> NoTime]

\* start(), waiting on the first query of ensureNextCommitExists
StartThread == [kind |-> "start", pc |-> "selectMax", roundId |-> 0, r |-> NoPayload,
                nextIdx |-> 0, seedHash |-> NoHash]

\* hmacHex(SEED_MASTER, String(idx))
hmacHex(idx) == [kind |-> "hmac", n |-> idx]

\* a deriveSeedForIdx that never looks at SEED_MASTER
deriveSeedForIdxEphemeral(idx, drawn) == [seed |-> RandomBytes(drawn + 1), drawn |-> drawn + 1]

\* deriveSeedForIdx(idx), drawn random draws having been made before
deriveSeedForIdx(idx, drawn) ==
    IF seedMaster
    THEN [seed |-> hmacHex(idx), drawn |-> drawn]
    ELSE [seed |-> RandomBytes(drawn + 1), drawn |-> drawn + 1]

\* SELECT MAX(idx) FROM seed_commits, 0 when the table is empty
MaxIdx == IF seedCommits = {} THEN 0
          ELSE CHOOSE i \in {c.idx : c \in seedCommits} :
                   \A c \in seedCommits : c.idx <= i

\* SELECT ... FROM seed_commits WHERE idx = $1
CommitsAt(idx) == {c \in seedCommits : c.idx = idx}

\* the seed the caller of ensureNextCommitExists hands to setNextSeed for commit
SeedFor(commit, drawn) ==
    LET d == deriveSeedForIdx(commit.idx, drawn)
    IN  [next |-> [seed |-> d.seed, seedHash |-> commit.seed_hash, commitIdx |-> commit.idx],
         drawn |-> d.drawn]

\* ensureNextCommitExists: SELECT MAX(idx)
SelectMaxIdx(th) ==
    /\ th \in threads
    /\ th.pc = "selectMax"
    /\ threads' = (threads \ {th}) \cup
                    {[th EXCEPT !.pc = "selectExisting", !.nextIdx = MaxIdx + 1]}
    /\ ret' = NoRet
    /\ UNCHANGED <<now, disposed, currentRound, timers, roundSeq, rndSeq, nextSeed, hist, fx,
                   seedMaster, routeVars, derived, errorLog, consumed, ensured, seedCommits, rounds, broadcasts, listening>>

\* ensureNextCommitExists returned commit to the roundStarted listener
ListenerSetsNextSeed(th, commit) ==
    /\ nextSeed' = SeedFor(commit, rndSeq).next
    /\ rndSeq' = SeedFor(commit, rndSeq).drawn
    /\ threads' = threads \ {th}

\* ensureNextCommitExists: SELECT the row of nextIdx; it is returned when it exists,
\* otherwise the seed is derived and hashed and the INSERT is sent
SelectExisting(th) ==
    /\ th \in threads
    /\ th.pc = "selectExisting"
    /\ ret' = NoRet
    /\ UNCHANGED <<now, disposed, currentRound, timers, roundSeq, hist, fx,
                   seedMaster, routeVars, derived, errorLog, consumed, ensured, seedCommits, rounds, broadcasts, listening>>
    /\ IF CommitsAt(th.nextIdx) # {}
       THEN LET existing == CHOOSE c \in CommitsAt(th.nextIdx) : TRUE
            IN  IF th.kind = "start"
                THEN /\ threads' = (threads \ {th}) \cup {[th EXCEPT !.pc = "getLatestCommit"]}
                     /\ UNCHANGED <<nextSeed, rndSeq>>
                ELSE ListenerSetsNextSeed(th, existing)
       ELSE LET d == deriveSeedForIdx(th.nextIdx, rndSeq)
            IN  /\ rndSeq' = d.drawn
                /\ threads' = (threads \ {th}) \cup
                                {[th EXCEPT !.pc = "insertCommit",
                                            !.seedHash = Sha256Hex(d.seed)]}
                /\ UNCHANGED nextSeed

\* an INSERT that replaces the row of a taken idx (ON CONFLICT ... DO UPDATE)
InsertedCommitsUpsert(idx, seedHash) ==
    {c \in seedCommits : c.idx # idx} \cup {[idx |-> idx, seed_hash |-> seedHash]}

\* an INSERT into a table without the unique constraint on idx
InsertedCommitsDuplicating(idx, seedHash) ==
    seedCommits \cup {[idx |-> idx, seed_hash |-> seedHash]}

\* INSERT INTO seed_commits ... ON CONFLICT (idx) DO NOTHING
InsertedCommits(idx, seedHash) ==
    IF CommitsAt(idx) # {} THEN seedCommits
    ELSE seedCommits \cup {[idx |-> idx, seed_hash |-> seedHash]}

\* ensureNextCommitExists: the INSERT, and the return of {idx, seed_hash}
InsertCommit(th) ==
    /\ th \in threads
    /\ th.pc = "insertCommit"
    /\ ret' = NoRet
    /\ seedCommits' = InsertedCommits(th.nextIdx, th.seedHash)
    /\ UNCHANGED <<now, disposed, currentRound, timers, roundSeq, hist, fx,
                   seedMaster, routeVars, derived, errorLog, consumed, ensured, rounds, broadcasts, listening>>
    /\ IF th.kind = "start"
       THEN /\ threads' = (threads \ {th}) \cup {[th EXCEPT !.pc = "getLatestCommit"]}
            /\ UNCHANGED <<nextSeed, rndSeq>>
       ELSE ListenerSetsNextSeed(th, [idx |-> th.nextIdx, seed_hash |-> th.seedHash])

\* start(): getLatestCommit, setNextSeed, attachEngineListeners, startEngine
StartEngine(th, d) ==
    /\ th \in threads
    /\ th.kind = "start"
    /\ th.pc = "getLatestCommit"
    /\ ret' = NoRet
    /\ listening' = TRUE
    /\ UNCHANGED <<now, disposed, fx, seedMaster, routeVars, derived, errorLog, ensured, seedCommits, rounds, broadcasts>>
    /\ LET latest == IF seedCommits = {} THEN [next |-> NoNextSeed, drawn |-> rndSeq]
                     ELSE SeedFor(CHOOSE c \in seedCommits : c.idx = MaxIdx, rndSeq)
       IN  IF disposed
           THEN /\ nextSeed' = latest.next
                /\ rndSeq' = latest.drawn
                /\ threads' = threads \ {th}
                /\ UNCHANGED <<currentRound, timers, roundSeq, hist, consumed>>
           ELSE createNewRound(AtCall(currentRound, timers, latest.next, latest.drawn,
                                      threads \ {th}, TRUE), d)

\* a persistRoundStart that already stores the seed
RoundStartRowWithSeed(r) ==
    [round_id |-> r.roundId, server_seed_hash |-> r.serverSeedHash,
     commit_idx |-> r.commitIdx, crash_point |-> r.crashPoint,
     started_at |-> r.startedAt, ended_at |-> NoTime, server_seed |-> r.serverSeed]

\* the row persistRoundStart inserts
RoundStartRow(r) ==
    [round_id |-> r.roundId, server_seed_hash |-> r.serverSeedHash,
     commit_idx |-> r.commitIdx, crash_point |-> r.crashPoint,
     started_at |-> r.startedAt, ended_at |-> NoTime, server_seed |-> NoSeed]

\* io.emit('roundStarted', ...)
RoundStartedBroadcast(r) ==
    [event |-> "roundStarted",
     data |-> [roundId |-> r.roundId, commitIdx |-> r.commitIdx,
               serverSeedHash |-> r.serverSeedHash, crashPoint |-> r.crashPoint,
               startedAt |-> r.startedAt]]

\* roundStarted listener: persistRoundStart's INSERT ... ON CONFLICT (round_id) DO
\* NOTHING answers (ok) or fails and is caught and logged in persistRoundStart; then
\* the broadcast and the call of ensureNextCommitExists
PersistRoundStartAnswers(th, ok) ==
    /\ th \in threads
    /\ th.pc = "persistRoundStart"
    /\ ret' = NoRet
    /\ rounds' = IF ~ok \/ th.roundId \in DOMAIN rounds THEN rounds
                 ELSE (th.roundId :> RoundStartRow(th.r)) @@ rounds
    /\ errorLog' = IF ok THEN errorLog
                   ELSE errorLog \cup {ErrorLine("persistRoundStart.error", th.roundId)}
    /\ broadcasts' = broadcasts \cup {RoundStartedBroadcast(th.r)}
    /\ threads' = (threads \ {th}) \cup {[th EXCEPT !.pc = "selectMax"]}
    /\ UNCHANGED <<now, disposed, currentRound, timers, roundSeq, rndSeq, nextSeed, hist, fx,
                   seedMaster, routeVars, derived, consumed, ensured, seedCommits, listening>>

\* the same when the database answers
PersistRoundStart(th) == PersistRoundStartAnswers(th, TRUE)

\* the columns persistRoundCrash's UPDATE sets
RoundCrashRow(row, r) ==
    [row EXCEPT !.crash_point = r.crashPoint, !.ended_at = r.endedAt,
                !.server_seed = r.serverSeed]

\* io.emit('crash', ...)
CrashBroadcast(r) ==
    [event |-> "crash",
     data |-> [roundId |-> r.roundId, crashPoint |-> r.crashPoint, commitIdx |-> r.commitIdx,
               serverSeedHash |-> r.serverSeedHash, startedAt |-> r.startedAt,
               endedAt |-> r.endedAt]]

\* a roundCrashed listener that gives up when persistRoundCrash failed
CrashBroadcastsIfPersisted(r, ok) == IF ok THEN {CrashBroadcast(r)} ELSE {}

\* what the roundCrashed listener emits after persistRoundCrash returned
CrashBroadcasts(r, ok) == {CrashBroadcast(r)}

\* roundCrashed listener: persistRoundCrash's UPDATE ... WHERE round_id answers (ok) or
\* fails and is caught and logged in persistRoundCrash; then the broadcast
PersistRoundCrashAnswers(th, ok) ==
    /\ th \in threads
    /\ th.pc = "persistRoundCrash"
    /\ ret' = NoRet
    /\ rounds' = IF ok /\ th.roundId \in DOMAIN rounds
                 THEN [rounds EXCEPT ![th.roundId] = RoundCrashRow(@, th.r)]
                 ELSE rounds
    /\ errorLog' = IF ok THEN errorLog
                   ELSE errorLog \cup {ErrorLine("persistRoundCrash.error", th.roundId)}
    /\ broadcasts' = broadcasts \cup CrashBroadcasts(th.r, ok)
    /\ fx' = [fx EXCEPT ![th.roundId].persisted = @ + (IF ok THEN 1 ELSE 0),
                        ![th.roundId].broadcast = @ + Cardinality(CrashBroadcasts(th.r, ok))]
    /\ threads' = threads \ {th}
    /\ UNCHANGED <<now, disposed, currentRound, timers, roundSeq, rndSeq, nextSeed, hist,
                   seedMaster, routeVars, derived, consumed, ensured, seedCommits, listening>>

\* the same when the database answers
PersistRoundCrash(th) == PersistRoundCrashAnswers(th, TRUE)

\* what GET /api/game/reveal/:roundId answers
RevealResponse(roundId) ==
    IF roundId \notin DOMAIN rounds THEN [error |-> "Round not found"]
    ELSE IF rounds[roundId].server_seed = NoSeed
    THEN [error |-> "Seed not revealed yet for this round"]
    ELSE [roundId |-> roundId, commitIdx |-> rounds[roundId].commit_idx,
          serverSeed |-> rounds[roundId].server_seed,
          serverSeedHash |-> rounds[roundId].server_seed_hash,
          crashPoint |-> rounds[roundId].crash_point,
          startedAt |-> rounds[roundId].started_at,
          endedAt |-> rounds[roundId].ended_at]

Reveal(roundId) ==
    /\ ret' = [op |-> "reveal", player |-> "", val |-> RevealResponse(roundId)]
    /\ UNCHANGED <<now, disposed, currentRound, timers, roundSeq, rndSeq, nextSeed, hist, fx,
                   seedMaster, routeVars, derived, errorLog, consumed, ensured, seedCommits, rounds, broadcasts, listening, threads>>

\* deriveSeedForIdx(idx) is called and returns
DeriveSeed(idx) ==
    /\ Len(derived[idx]) < MaxDerives
    /\ derived' = [derived EXCEPT ![idx] = Append(@, deriveSeedForIdx(idx, rndSeq).seed)]
    /\ rndSeq' = deriveSeedForIdx(idx, rndSeq).drawn
    /\ ret' = NoRet
    /\ UNCHANGED <<now, disposed, currentRound, timers, roundSeq, nextSeed, hist, fx,
                   seedMaster, routeVars, errorLog, consumed, ensured, seedCommits, rounds,
                   broadcasts, listening, threads>>

(* ------------- ensureNextCommitExists, called on its own --------------- *)

Callers == 1 .. MaxCallers

NoCommit == [idx |-> NoCommitIdx, seed_hash |-> NoHash]

\* a caller that has not called yet; began and returned number the calls and returns
\* of all callers in the order they happen, before and after are the rows of
\* seed_commits at the call and at the return
IdleCall == [pc |-> "idle", nextIdx |-> 0, seedHash |-> NoHash, result |-> NoCommit,
             began |-> 0, returned |-> 0, before |-> {}, after |-> {}]

\* calls and returns that have happened so far
Events ==
    Cardinality({c \in Callers : ensured[c].began > 0})
        + Cardinality({c \in Callers : ensured[c].returned > 0})

\* the engine, the listeners and the round tables, which these calls do not touch
EnsureFrame ==
    /\ ret' = NoRet
    /\ UNCHANGED <<now, disposed, currentRound, timers, roundSeq, nextSeed, hist, fx,
                   seedMaster, routeVars, derived, errorLog, consumed, rounds, broadcasts, listening, threads>>

\* ensureNextCommitExists(db) is called: it runs up to its first query
CallEnsure(c) ==
    /\ ensured[c].pc = "idle"
    /\ ensured' = [ensured EXCEPT ![c].pc = "selectMax",
                                  ![c].began = Events + 1,
                                  ![c].before = seedCommits]
    /\ EnsureFrame
    /\ UNCHANGED <<seedCommits, rndSeq>>

\* SELECT MAX(idx) answers
EnsureSelectMax(c) ==
    /\ ensured[c].pc = "selectMax"
    /\ ensured' = [ensured EXCEPT ![c].pc = "selectExisting", ![c].nextIdx = MaxIdx + 1]
    /\ EnsureFrame
    /\ UNCHANGED <<seedCommits, rndSeq>>

\* the call returns commit
EnsureReturns(c, commit, rows) ==
    ensured' = [ensured EXCEPT ![c].pc = "returned",
                               ![c].result = [idx |-> commit.idx,
                                              seed_hash |-> commit.seed_hash],
                               ![c].returned = Events + 1,
                               ![c].after = rows]

\* SELECT ... WHERE idx = nextIdx answers: the existing row is returned, or the seed
\* is derived and hashed and the INSERT is sent
EnsureSelectExisting(c) ==
    /\ ensured[c].pc = "selectExisting"
    /\ EnsureFrame
    /\ UNCHANGED seedCommits
    /\ IF CommitsAt(ensured[c].nextIdx) # {}
       THEN /\ EnsureReturns(c, CHOOSE e \in CommitsAt(ensured[c].nextIdx) : TRUE,
                             seedCommits)
            /\ UNCHANGED rndSeq
       ELSE LET d == deriveSeedForIdx(ensured[c].nextIdx, rndSeq)
            IN  /\ rndSeq' = d.drawn
                /\ ensured' = [ensured EXCEPT ![c].pc = "insertCommit",
                                              ![c].seedHash = Sha256Hex(d.seed)]

\* the INSERT answers, and {idx: nextIdx, seed_hash: seedHash} is returned
EnsureInsert(c) ==
    /\ ensured[c].pc = "insertCommit"
    /\ EnsureFrame
    /\ UNCHANGED rndSeq
    /\ seedCommits' = InsertedCommits(ensured[c].nextIdx, ensured[c].seedHash)
    /\ EnsureReturns(c, [idx |-> ensured[c].nextIdx, seed_hash |-> ensured[c].seedHash],
                     seedCommits')

(* --------------------------- the specifications ------------------------ *)

\* gameEngine.js as loaded: createNewRound() at the end of the module
Boot(d) ==
    /\ roundSeq = 0
    /\ ~disposed
    /\ currentRound = NoRound
    /\ ret' = NoRet
    /\ createNewRound(AtCall(currentRound, timers, nextSeed, rndSeq, threads, listening), d)
    /\ UNCHANGED <<now, disposed, fx, seedMaster, routeVars, derived, errorLog, ensured, seedCommits, rounds, broadcasts, listening>>

\* the tables of the routes before any request: no bet, no payment, no balance
InitRoutes ==
    /\ users = [u \in RouteUsers |-> 0]
    /\ bets = {}
    /\ payments = <<>>
    /\ handlers = [h \in HandlerIds |-> IdleHandler]
    /\ cashoutTimestamps = <<>>

\* the engine and server.js as loaded
InitProgram ==
    /\ now = 0
    /\ disposed = FALSE
    /\ currentRound = NoRound
    /\ timers = {}
    /\ roundSeq = 0
    /\ rndSeq = 0
    /\ nextSeed = NoNextSeed
    /\ ret = NoRet
    /\ hist = NoHist
    /\ fx = [i \in RoundIds |-> NoFx]
    /\ seedCommits = {}
    /\ rounds = <<>>
    /\ broadcasts = {}
    /\ listening = FALSE
    /\ ensured = [c \in Callers |-> IdleCall]
    /\ errorLog = {}
    /\ derived = [i \in DeriveIdxs |-> <<>>]
    /\ consumed = <<>>

InitEngine ==
    /\ InitRoutes
    /\ InitProgram

\* the engine alone: no listener is subscribed
Init ==
    /\ InitEngine
    /\ seedMaster = FALSE
    /\ threads = {}

Next ==
    \/ \E d \in RandomDraws : Boot(d)
    \/ \E t \in TickTargets(ElapsedSteps) : Tick(t)
    \/ \E t \in timers : CrashTimerFires(t)
    \/ \E t \in timers, d \in RandomDraws : NextRoundTimerFires(t, d)
    \/ getRoundStatus
    \/ \E p \in Players \cup {""}, b \in BetInputs : joinRound(p, JsNumber(b))
    \/ \E p \in Players : cashOut(p)
    \/ dispose

Spec == Init /\ [][Next]_vars

\* the server: start() drives the engine, the listeners persist and broadcast, the
\* broadcast loop polls getRoundStatus, a client joins and cashes out, the reveal
\* endpoint is queried, gracefulShutdown disposes the engine
InitServer ==
    /\ InitEngine
    /\ seedMaster \in BOOLEAN
    /\ threads = {StartThread}

NextServer ==
    \/ \E t \in TickTargets(BroadcastSteps) : Tick(t)
    \/ \E t \in timers : CrashTimerFires(t)
    \/ \E t \in timers, d \in RandomDraws : NextRoundTimerFires(t, d)
    \/ getRoundStatus
    \/ dispose
    \/ \E th \in threads : SelectMaxIdx(th)
    \/ \E th \in threads : SelectExisting(th)
    \/ \E th \in threads : InsertCommit(th)
    \/ \E th \in threads, d \in RandomDraws : StartEngine(th, d)
    \/ \E th \in threads : PersistRoundStart(th)
    \/ \E th \in threads : PersistRoundCrash(th)
    \/ \E i \in RoundIds : Reveal(i)
    \/ \E p \in ServerPlayers, b \in ServerBets : joinRound(p, JsNumber(b))
    \/ \E p \in ServerPlayers : cashOut(p)

SpecServer == InitServer /\ [][NextServer]_vars

\* ensureNextCommitExists called by several callers, one after the other or at once,
\* while no round starts
InitCommits ==
    /\ InitEngine
    /\ seedMaster \in BOOLEAN
    /\ threads = {}

NextCommits ==
    \/ \E c \in Callers : CallEnsure(c)
    \/ \E c \in Callers : EnsureSelectMax(c)
    \/ \E c \in Callers : EnsureSelectExisting(c)
    \/ \E c \in Callers : EnsureInsert(c)

SpecCommits == InitCommits /\ [][NextCommits]_vars

\* values of every kind offered to joinRound as betAmount: 10.00, 0, -0.05, NaN,
\* Infinity and a missing argument
BetValues == {JsNumber(1000), JsNumber(0), JsNumber(0 - 5), JsNaN, JsInfinity, JsUndefined}

\* the engine with callers that join with any value, while the round runs and crashes
NextBets ==
    \/ \E d \in RandomDraws : Boot(d)
    \/ \E t \in TickTargets(ElapsedSteps) : Tick(t)
    \/ \E t \in timers : CrashTimerFires(t)
    \/ \E p \in Players \cup {""}, v \in BetValues : joinRound(p, v)

SpecBets == Init /\ [][NextBets]_vars

\* the engine left to its timers, with one client: the clock goes on and a timer that
\* is due fires, as the event loop of a live process runs every due timer
NextCycle ==
    \/ \E d \in RandomDraws : Boot(d)
    \/ \E t \in TickTargets(ElapsedSteps) : Tick(t)
    \/ \E t \in timers : CrashTimerFires(t)
    \/ \E t \in timers, d \in RandomDraws : NextRoundTimerFires(t, d)
    \/ getRoundStatus
    \/ \E p \in ServerPlayers, b \in ServerBets : joinRound(p, JsNumber(b))
    \/ \E p \in ServerPlayers : cashOut(p)
    \/ dispose

SpecCycle ==
    /\ Init
    /\ [][NextCycle]_vars
    /\ WF_vars(\E t \in TickTargets(ElapsedSteps) : Tick(t))
    /\ WF_vars(\E t \in timers : CrashTimerFires(t))
    /\ WF_vars(\E t \in timers, d \in RandomDraws : NextRoundTimerFires(t, d))

\* the server with a database whose round queries may fail: start() drives the
\* engine, the listeners persist and broadcast, the broadcast loop polls
\* getRoundStatus, gracefulShutdown disposes the engine; the clock goes on and due
\* timers fire
NextFaults ==
    \/ \E t \in TickTargets(BroadcastSteps) : Tick(t)
    \/ \E t \in timers : CrashTimerFires(t)
    \/ \E t \in timers, d \in RandomDraws : NextRoundTimerFires(t, d)
    \/ getRoundStatus
    \/ dispose
    \/ \E th \in threads : SelectMaxIdx(th)
    \/ \E th \in threads : SelectExisting(th)
    \/ \E th \in threads : InsertCommit(th)
    \/ \E th \in threads, d \in RandomDraws : StartEngine(th, d)
    \/ \E th \in threads, ok \in BOOLEAN : PersistRoundStartAnswers(th, ok)
    \/ \E th \in threads, ok \in BOOLEAN : PersistRoundCrashAnswers(th, ok)

\* SEED_MASTER is configured
InitFaults ==
    /\ InitEngine
    /\ seedMaster = TRUE
    /\ threads = {StartThread}

SpecFaults ==
    /\ InitFaults
    /\ [][NextFaults]_vars
    /\ WF_vars(\E t \in TickTargets(BroadcastSteps) : Tick(t))
    /\ WF_vars(\E t \in timers : CrashTimerFires(t))
    /\ WF_vars(\E t \in timers, d \in RandomDraws : NextRoundTimerFires(t, d))

\* the engine with a crypto.randomBytes that may throw when the next round is created
NextThrows ==
    \/ \E d \in RandomDraws : Boot(d)
    \/ \E t \in TickTargets(ElapsedSteps) : Tick(t)
    \/ \E t \in timers : CrashTimerFires(t)
    \/ \E t \in timers, d \in RandomDraws : NextRoundTimerFires(t, d)
    \/ \E t \in timers : NextRoundTimerFiresAndThrows(t)
    \/ getRoundStatus
    \/ \E p \in ServerPlayers, b \in ServerBets : joinRound(p, JsNumber(b))
    \/ \E p \in ServerPlayers : cashOut(p)

SpecThrows == Init /\ [][NextThrows]_vars

\* the process is stopped and started again: the module state of gameEngine.js and
\* server.js is as loaded and start() runs, the tables are as they were; round ids
\* and random bytes stay fresh
Restart ==
    /\ MaxIdx < MaxCommits
    /\ roundSeq < MaxRounds
    /\ disposed' = FALSE
    /\ currentRound' = NoRound
    /\ timers' = {}
    /\ nextSeed' = NoNextSeed
    /\ hist' = NoHist
    /\ listening' = FALSE
    /\ threads' = {StartThread}
    /\ ret' = NoRet
    /\ UNCHANGED <<now, roundSeq, rndSeq, fx, seedMaster, routeVars, derived, errorLog, consumed, ensured,
                   seedCommits, rounds, broadcasts>>

\* the server, stopped and started again at any moment
NextRestart ==
    \/ \E t \in TickTargets(BroadcastSteps) : Tick(t)
    \/ \E t \in timers : CrashTimerFires(t)
    \/ \E t \in timers, d \in RandomDraws : NextRoundTimerFires(t, d)
    \/ \E th \in threads : SelectMaxIdx(th)
    \/ \E th \in threads : SelectExisting(th)
    \/ \E th \in threads : InsertCommit(th)
    \/ \E th \in threads, d \in RandomDraws : StartEngine(th, d)
    \/ \E th \in threads : PersistRoundStart(th)
    \/ \E th \in threads : PersistRoundCrash(th)
    \/ Restart

SpecRestart == InitFaults /\ [][NextRestart]_vars

\* deriveSeedForIdx called on its own, before, between and after the queries of the
\* calls of ensureNextCommitExists, which derive seeds as well
NextDerive ==
    \/ \E i \in DeriveIdxs : DeriveSeed(i)
    \/ \E c \in DeriveCallers : CallEnsure(c)
    \/ \E c \in DeriveCallers : EnsureSelectMax(c)
    \/ \E c \in DeriveCallers : EnsureSelectExisting(c)
    \/ \E c \in DeriveCallers : EnsureInsert(c)

SpecDerive == InitCommits /\ [][NextDerive]_vars

\* computeMultiplier called on its own for one round, at every millisecond up to
\* MaxElapsed after the start of the round
InitMultiplier ==
    /\ InitEngine
    /\ seedMaster = FALSE
    /\ threads = {}

NextMultiplier ==
    \/ \E t \in StartTimes : roundSeq = 0 /\ Tick(t)
    \/ \E d \in RandomDraws : Boot(d)
    \/ \E t \in now + 1 .. now + MaxElapsed : Elapse(t)
    \/ CallComputeMultiplier

SpecMultiplier == InitMultiplier /\ [][NextMultiplier]_vars

\* the engine creating its rounds from draws over the whole range of Math.random()
NextCrashPoints ==
    \/ \E d \in CrashDraws : Boot(d)
    \/ \E t \in TickTargets(ElapsedSteps) : Tick(t)
    \/ \E t \in timers : CrashTimerFires(t)
    \/ \E t \in timers, d \in CrashDraws : NextRoundTimerFires(t, d)
    \/ getRoundStatus

SpecCrashPoints == Init /\ [][NextCrashPoints]_vars

(* ------------------- payments.js: POST /api/payments/callback ------------------- *)

\* the mtn_transaction_id of the one payment on record
TransactionIds == {"tx1"}
\* what a callback payload carries as referenceId ("" is a payload without one) and as
\* status
CallbackReferenceIds == {"tx1", "tx9", ""}
CallbackStatuses == {"SUCCESSFUL", "FAILED", "PENDING"}
\* the balance of the user and the amount of the payment, in cents
OpeningBalance == 1000
PaymentAmount == 500

\* the row POST /deposit inserts (status 'pending'), or the row POST /withdraw inserts
\* after it has debited the balance (status 'processing')
PaymentRow(type) ==
    [user_id |-> "p1", type |-> type, amount |-> PaymentAmount,
     status |-> IF type = "deposit" THEN "pending" ELSE "processing"]

\* the callback's mapping of the MTN status to the status of the payment
OurStatus(mtnStatus) ==
    IF mtnStatus = "SUCCESSFUL" THEN "completed"
    ELSE IF mtnStatus = "FAILED" THEN "failed"
    ELSE IF mtnStatus = "EXPIRED" THEN "expired"
    ELSE "pending"

\* whether the callback goes on to credit the balance of the user
CreditsBalance(payment, ourStatus) ==
    \/ payment.type = "deposit" /\ ourStatus = "completed"
    \/ payment.type = "withdraw" /\ ourStatus = "failed"

Responded(h, status, body) ==
    [handlers EXCEPT ![h] = [pc |-> "done", route |-> handlers[h].route,
                             response |-> [status |-> status, body |-> body]]]

\* the callback arrives: up to the first await (SELECT ... FROM payments)
PaymentsCallback(h, referenceId, mtnStatus) ==
    /\ handlers[h] = IdleHandler
    /\ handlers' =
         IF referenceId = ""
         THEN [handlers EXCEPT ![h] = [pc |-> "done", route |-> "callback",
                                       response |-> [status |-> 400,
                                                     body |-> "Missing referenceId"]]]
         ELSE [handlers EXCEPT ![h] = [pc |-> "selectPayment", route |-> "callback",
                                       mtnTransactionId |-> referenceId,
                                       mtnStatus |-> mtnStatus]]
    /\ UNCHANGED <<programVars, users, bets, payments, cashoutTimestamps>>

\* the SELECT answers: an unknown payment is acknowledged, a known one goes on to the
\* UPDATE of its row
CallbackSelectPayment(h) ==
    /\ handlers[h].pc = "selectPayment"
    /\ handlers' =
         IF handlers[h].mtnTransactionId \notin DOMAIN payments
         THEN Responded(h, 200, "Payment not found but acknowledged")
         ELSE [handlers EXCEPT ![h] =
                   [pc |-> "updatePayment", route |-> "callback",
                    mtnTransactionId |-> handlers[h].mtnTransactionId,
                    mtnStatus |-> handlers[h].mtnStatus,
                    payment |-> payments[handlers[h].mtnTransactionId]]]
    /\ UNCHANGED <<programVars, users, bets, payments, cashoutTimestamps>>

\* UPDATE payments SET status: then the credit, if the type and the status ask for it
CallbackUpdatePayment(h) ==
    /\ handlers[h].pc = "updatePayment"
    /\ payments' = [payments EXCEPT ![handlers[h].mtnTransactionId].status =
                                        OurStatus(handlers[h].mtnStatus)]
    /\ handlers' =
         IF CreditsBalance(handlers[h].payment, OurStatus(handlers[h].mtnStatus))
         THEN [handlers EXCEPT ![h].pc = "creditUser"]
         ELSE Responded(h, 200, "Callback processed")
    /\ UNCHANGED <<programVars, users, bets, cashoutTimestamps>>

\* UPDATE users SET balance = balance + amount, updated_at = NOW(), and the answer. The
\* database accepts the statement (ok) where the users table has the column updated_at
\* the statement names; it rejects it where the table is the one of the migration
\* (column updatedat), and the catch block answers 500.
CallbackCreditUser(h, ok) ==
    /\ handlers[h].pc = "creditUser"
    /\ users' = IF ok
                THEN [users EXCEPT ![handlers[h].payment.user_id] =
                                       @ + handlers[h].payment.amount]
                ELSE users
    /\ handlers' = IF ok
                   THEN Responded(h, 200, "Callback processed")
                   ELSE Responded(h, 500, "Callback processing failed")
    /\ UNCHANGED <<programVars, bets, payments, cashoutTimestamps>>

\* no payment on record and no callback received
InitPayments ==
    /\ InitEngine
    /\ seedMaster = FALSE
    /\ threads = {}

\* POST /deposit or POST /withdraw has committed: the one payment is on record, and the
\* balance is what the user holds while MTN works on it (a withdrawal is debited
\* before its row is inserted)
RecordPayment(type) ==
    /\ payments = <<>>
    /\ payments' = [t \in TransactionIds |-> PaymentRow(type)]
    /\ users' = [u \in RouteUsers |-> OpeningBalance]
    /\ UNCHANGED <<programVars, bets, handlers, cashoutTimestamps>>

NextPayments ==
    \/ \E type \in {"deposit", "withdraw"} : RecordPayment(type)
    \/ \E h \in HandlerIds, id \in CallbackReferenceIds, st \in CallbackStatuses :
           PaymentsCallback(h, id, st)
    \/ \E h \in HandlerIds : CallbackSelectPayment(h)
    \/ \E h \in HandlerIds : CallbackUpdatePayment(h)
    \/ \E h \in HandlerIds, ok \in BOOLEAN : CallbackCreditUser(h, ok)

SpecPayments == InitPayments /\ [][NextPayments]_vars

(* --------------------- game.js: POST /start, POST /cashout --------------------- *)

\* pairs of Math.random() draws of the rounds the requests meet: crash points 1.10 and
\* 4.00, crash timers at 100 ms and 3000 ms
RouteDraws == {<<0, 0>>, <<700, 667>>}
\* elapsed times since startedAt at which requests arrive and queries answer
RouteSteps == {50, 1100, 2200}
\* the bet of a request and the balance the user starts with, in cents
RouteBets == {1000}
StartingBalance == 2000
CASHOUT_MIN_INTERVAL_MS == 1000

\* what a step of a handler that only logs an error leaves alone
programVarsButLog == <<now, disposed, currentRound, timers, roundSeq, rndSeq, nextSeed, ret,
                       hist, fx, seedMaster, derived, consumed, seedCommits, rounds,
                       broadcasts, listening, threads, ensured>>

\* the handler has answered the request
Done(route, user, status, body) ==
    [pc |-> "done", route |-> route, user |-> user,
     response |-> [status |-> status, body |-> body]]

\* requests take the handler slots in order
EarlierArrived(h) == IF h = 1 THEN TRUE ELSE handlers[h - 1] # IdleHandler

\* row locks of the open transactions: the row of the user is locked from the UPDATE
\* of its balance to the COMMIT or ROLLBACK, the row of a bet from SELECT ... FOR
\* UPDATE or UPDATE bets to the COMMIT or ROLLBACK
HoldsUserLock(g, u) ==
    /\ handlers[g].pc \in {"insertBet", "commitStart", "refundBet", "refundCommit",
                           "commitCashout"}
    /\ handlers[g].user = u

HoldsBetLock(g, id) ==
    /\ handlers[g].pc \in {"settleLost", "creditUser", "commitCashout", "refundCommit"}
    /\ handlers[g].betId = id

UserLockedByOther(h, u) == \E g \in HandlerIds \ {h} : HoldsUserLock(g, u)

BetLockedByOther(h, id) == \E g \in HandlerIds \ {h} : HoldsBetLock(g, id)

\* the row INSERT INTO bets writes; the id of the bet is the one of its request
BetRow(id, roundId, user, betAmount) ==
    [id |-> id, round_id |-> roundId, user_id |-> user, bet_amount |-> betAmount,
     status |-> "active", payout |-> NoAmount]

\* idx_bets_user_round: one active bet per user and round
ActiveBetExists(user, roundId) ==
    \E b \in bets : b.user_id = user /\ b.round_id = roundId /\ b.status = "active"

\* UPDATE bets SET status, payout WHERE id
UpdatedBets(id, status, payout) ==
    {IF b.id = id THEN [b EXCEPT !.status = status, !.payout = payout] ELSE b : b \in bets}

\* POST /start arrives: the bet amount is checked and getRoundStatus() is asked, up to
\* await db.connect() and BEGIN
PostStart(h, u, b) ==
    /\ handlers[h] = IdleHandler
    /\ EarlierArrived(h)
    /\ UNCHANGED <<users, bets, payments, cashoutTimestamps>>
    /\ IF b <= 0
       THEN /\ handlers' = [handlers EXCEPT ![h] = Done("start", u, 400, "Invalid bet amount")]
            /\ UNCHANGED programVars
       ELSE /\ engineGetRoundStatus
            /\ handlers' = [handlers EXCEPT ![h] =
                   IF ret'.val.status # "running"
                   THEN Done("start", u, 400, "No active running round")
                   ELSE [pc |-> "debit", route |-> "start", user |-> u, betAmount |-> b,
                         roundId |-> ret'.val.roundId, betId |-> h]]

\* UPDATE users SET balance = balance - bet WHERE balance >= bet: waits for the row of
\* the user, then debits inside the transaction or rolls back with 402
StartDebit(h) ==
    /\ handlers[h].pc = "debit"
    /\ ~UserLockedByOther(h, handlers[h].user)
    /\ handlers' = [handlers EXCEPT ![h] =
           IF users[handlers[h].user] >= handlers[h].betAmount
           THEN [handlers[h] EXCEPT !.pc = "insertBet"]
           ELSE Done("start", handlers[h].user, 402, "Insufficient funds")]
    /\ UNCHANGED <<programVars, users, bets, payments, cashoutTimestamps>>

\* INSERT INTO bets with the roundId of the status read at arrival: a second active
\* bet of the user for that round violates the unique index, and the catch block
\* rolls back
StartInsertBet(h) ==
    /\ handlers[h].pc = "insertBet"
    /\ handlers' = [handlers EXCEPT ![h] =
           IF ActiveBetExists(handlers[h].user, handlers[h].roundId)
           THEN Done("start", handlers[h].user, 500, "Server error")
           ELSE [handlers[h] EXCEPT !.pc = "commitStart"]]
    /\ errorLog' = IF ActiveBetExists(handlers[h].user, handlers[h].roundId)
                   THEN errorLog \cup {ErrorLine("game/start transaction error", 0)}
                   ELSE errorLog
    /\ UNCHANGED <<programVarsButLog, users, bets, payments, cashoutTimestamps>>

\* COMMIT: the debit and the bet row become visible
StartCommit(h) ==
    /\ handlers[h].pc = "commitStart"
    /\ users' = [users EXCEPT ![handlers[h].user] = @ - handlers[h].betAmount]
    /\ bets' = bets \cup {BetRow(handlers[h].betId, handlers[h].roundId, handlers[h].user,
                                 handlers[h].betAmount)}
    /\ handlers' = [handlers EXCEPT ![h].pc = "joinRound"]
    /\ UNCHANGED <<programVars, payments, cashoutTimestamps>>

\* the handler goes on after the COMMIT: joinRound(user.id, betAmount), and the answer
\* with the roundId the engine returned, or the way to the refund
StartJoinRound(h) ==
    /\ handlers[h].pc = "joinRound"
    /\ engineJoinRound(handlers[h].user, JsNumber(handlers[h].betAmount))
    /\ handlers' = [handlers EXCEPT ![h] =
           IF "error" \in DOMAIN ret'.val
           THEN [handlers[h] EXCEPT !.pc = "refundCredit"]
           ELSE [pc |-> "done", route |-> "start", user |-> handlers[h].user,
                 betId |-> handlers[h].betId,
                 response |-> [status |-> 200,
                               body |-> [betId |-> handlers[h].betId,
                                         roundId |-> ret'.val.roundId]]]]
    /\ UNCHANGED <<users, bets, payments, cashoutTimestamps>>

\* what POST /start answers when joinRound has thrown
JoinFailed(h) ==
    [pc |-> "done", route |-> "start", user |-> handlers[h].user,
     betId |-> handlers[h].betId,
     response |-> [status |-> 500, body |-> "Failed to join round"]]

\* the refund: UPDATE users SET balance = balance + bet in a new transaction. When the
\* database rejects the statement (ok is FALSE) the catch block rolls back and logs,
\* and the handler answers as it does after a refund.
StartRefundCredit(h, ok) ==
    /\ handlers[h].pc = "refundCredit"
    /\ ~UserLockedByOther(h, handlers[h].user)
    /\ handlers' = [handlers EXCEPT ![h] =
           IF ok THEN [handlers[h] EXCEPT !.pc = "refundBet"] ELSE JoinFailed(h)]
    /\ errorLog' = IF ok THEN errorLog
                   ELSE errorLog \cup {ErrorLine("Failed to refund after joinRound failure", 0),
                                       ErrorLine("joinRound error after DB changes", 0)}
    /\ UNCHANGED <<programVarsButLog, users, bets, payments, cashoutTimestamps>>

\* UPDATE bets SET status = 'refunded' WHERE id: waits for the row of the bet
StartRefundBet(h) ==
    /\ handlers[h].pc = "refundBet"
    /\ ~BetLockedByOther(h, handlers[h].betId)
    /\ handlers' = [handlers EXCEPT ![h].pc = "refundCommit"]
    /\ UNCHANGED <<programVars, users, bets, payments, cashoutTimestamps>>

\* COMMIT of the refund, and the answer 500 "Failed to join round"
StartRefundCommit(h) ==
    /\ handlers[h].pc = "refundCommit"
    /\ users' = [users EXCEPT ![handlers[h].user] = @ + handlers[h].betAmount]
    /\ bets' = {IF b.id = handlers[h].betId THEN [b EXCEPT !.status = "refunded"] ELSE b :
                   b \in bets}
    /\ handlers' = [handlers EXCEPT ![h] = JoinFailed(h)]
    /\ errorLog' = errorLog \cup {ErrorLine("joinRound error after DB changes", 0)}
    /\ UNCHANGED <<programVarsButLog, payments, cashoutTimestamps>>

\* the rate limiter: an attempt less than CASHOUT_MIN_INTERVAL_MS after the last one of
\* the user is refused (a user without an entry has last = 0, long ago)
RateLimited(u) ==
    /\ u \in DOMAIN cashoutTimestamps
    /\ now - cashoutTimestamps[u] < CASHOUT_MIN_INTERVAL_MS

\* cashoutTimestamps.set(user.id, Date.now())
Stamped(u) ==
    [x \in DOMAIN cashoutTimestamps \cup {u} |-> IF x = u THEN now ELSE cashoutTimestamps[x]]

\* the active bets of the user for the round of the status read at arrival
ActiveBets(user, roundId) ==
    {b \in bets : b.user_id = user /\ b.status = "active" /\ b.round_id = roundId}

\* POST /cashout arrives: the rate limiter, then getRoundStatus(), up to
\* await db.connect() and BEGIN
PostCashout(h, u) ==
    /\ handlers[h] = IdleHandler
    /\ EarlierArrived(h)
    /\ cashoutTimestamps' = Stamped(u)
    /\ UNCHANGED <<users, bets, payments>>
    /\ IF RateLimited(u)
       THEN /\ handlers' = [handlers EXCEPT ![h] =
                   Done("cashout", u, 429, "Too many cashout attempts; slow down")]
            /\ UNCHANGED programVars
       ELSE /\ engineGetRoundStatus
            /\ handlers' = [handlers EXCEPT ![h] =
                   IF ret'.val.status # "running"
                   THEN Done("cashout", u, 400, "No active running round")
                   ELSE [pc |-> "selectBet", route |-> "cashout", user |-> u,
                         roundId |-> ret'.val.roundId]]

\* a winning cashOut whose credit is not yet committed
Winning(h, betId, result) ==
    [pc |-> "creditUser", route |-> "cashout", user |-> handlers[h].user,
     betId |-> betId, wonRound |-> currentRound.roundId, engineResult |-> result]

\* a cashOut the engine answered with a loss
Losing(h, betId, result) ==
    [pc |-> "settleLost", route |-> "cashout", user |-> handlers[h].user,
     betId |-> betId, engineResult |-> result]

\* SELECT ... FROM bets WHERE status = 'active' AND round_id = $2 FOR UPDATE waits for
\* the row and locks it; the handler goes on with engineCashOut(user.id): a throw rolls
\* back with 500, a loss goes on to UPDATE bets, a win to UPDATE users
CashoutSelectBet(h) ==
    LET me == handlers[h]
        found == ActiveBets(me.user, me.roundId)
    IN  /\ me.pc = "selectBet"
        /\ \A b \in found : ~BetLockedByOther(h, b.id)
        /\ UNCHANGED <<users, bets, payments, cashoutTimestamps>>
        /\ IF found = {}
           THEN /\ handlers' = [handlers EXCEPT ![h] =
                       Done("cashout", me.user, 400, "No active bet found for current round")]
                /\ UNCHANGED programVars
           ELSE /\ engineCashOut(me.user)
                /\ handlers' = [handlers EXCEPT ![h] =
                       IF "error" \in DOMAIN ret'.val
                       THEN Done("cashout", me.user, 500, "Server error during cashout")
                       ELSE IF ret'.val.win
                       THEN Winning(h, (CHOOSE b \in found : TRUE).id, ret'.val)
                       ELSE Losing(h, (CHOOSE b \in found : TRUE).id, ret'.val)]

\* UPDATE bets SET status = 'lost', payout = 0 and COMMIT, and the answer
CashoutSettleLost(h) ==
    /\ handlers[h].pc = "settleLost"
    /\ bets' = UpdatedBets(handlers[h].betId, "lost", 0)
    /\ cashoutTimestamps' = Stamped(handlers[h].user)
    /\ handlers' = [handlers EXCEPT ![h] =
           [pc |-> "done", route |-> "cashout", user |-> handlers[h].user,
            betId |-> handlers[h].betId, engineResult |-> handlers[h].engineResult,
            response |-> [status |-> 200, body |-> [success |-> FALSE, payout |-> 0]]]]
    /\ UNCHANGED <<programVars, users, payments>>

\* what POST /cashout answers when a query after the engine's win is rejected
CreditFailed(h) ==
    [pc |-> "done", route |-> "cashout", user |-> handlers[h].user,
     betId |-> handlers[h].betId, wonRound |-> handlers[h].wonRound,
     engineResult |-> handlers[h].engineResult,
     response |-> [status |-> 500, body |-> "Server error"]]

\* UPDATE users SET balance = balance + payout: waits for the row of the user. When
\* the database rejects the statement (ok is FALSE) the catch block rolls back and
\* answers 500.
CashoutCreditUser(h, ok) ==
    /\ handlers[h].pc = "creditUser"
    /\ ~UserLockedByOther(h, handlers[h].user)
    /\ handlers' = [handlers EXCEPT ![h] =
           IF ok THEN [handlers[h] EXCEPT !.pc = "commitCashout"] ELSE CreditFailed(h)]
    /\ errorLog' = IF ok THEN errorLog
                   ELSE errorLog \cup {ErrorLine("game/cashout transaction error", 0)}
    /\ UNCHANGED <<programVarsButLog, users, bets, payments, cashoutTimestamps>>

\* a credit that is applied twice
CreditedBalanceTwice(balance, payout) == balance + payout + payout

\* the balance after the credit of a payout
CreditedBalance(balance, payout) == balance + payout

\* UPDATE bets SET status = 'cashed', payout and COMMIT: the credit and the settled
\* bet become visible, and the handler answers success
CashoutCommit(h) ==
    /\ handlers[h].pc = "commitCashout"
    /\ users' = [users EXCEPT ![handlers[h].user] =
                                  CreditedBalance(@, handlers[h].engineResult.payout)]
    /\ bets' = UpdatedBets(handlers[h].betId, "cashed", handlers[h].engineResult.payout)
    /\ cashoutTimestamps' = Stamped(handlers[h].user)
    /\ handlers' = [handlers EXCEPT ![h] =
           [pc |-> "done", route |-> "cashout", user |-> handlers[h].user,
            betId |-> handlers[h].betId, wonRound |-> handlers[h].wonRound,
            engineResult |-> handlers[h].engineResult,
            response |-> [status |-> 200,
                          body |-> [success |-> TRUE,
                                    payout |-> handlers[h].engineResult.payout]]]]
    /\ UNCHANGED <<programVars, payments>>

\* the engine with its timers and the requests of one user with 20.00 on the account
InitGame ==
    /\ InitProgram
    /\ seedMaster = FALSE
    /\ threads = {}
    /\ users = [u \in RouteUsers |-> StartingBalance]
    /\ bets = {}
    /\ payments = <<>>
    /\ handlers = [h \in HandlerIds |-> IdleHandler]
    /\ cashoutTimestamps = <<>>

NextGame ==
    \/ \E d \in RouteDraws : Boot(d)
    \/ \E t \in TickTargets(RouteSteps) : Tick(t)
    \/ \E t \in timers : CrashTimerFires(t)
    \/ \E t \in timers, d \in RouteDraws : NextRoundTimerFires(t, d)
    \/ \E h \in HandlerIds, u \in RouteUsers, b \in RouteBets : PostStart(h, u, b)
    \/ \E h \in HandlerIds : StartDebit(h)
    \/ \E h \in HandlerIds : StartInsertBet(h)
    \/ \E h \in HandlerIds : StartCommit(h)
    \/ \E h \in HandlerIds : StartJoinRound(h)
    \/ \E h \in HandlerIds, ok \in BOOLEAN : StartRefundCredit(h, ok)
    \/ \E h \in HandlerIds : StartRefundBet(h)
    \/ \E h \in HandlerIds : StartRefundCommit(h)
    \/ \E h \in HandlerIds, u \in RouteUsers : PostCashout(h, u)
    \/ \E h \in HandlerIds : CashoutSelectBet(h)
    \/ \E h \in HandlerIds : CashoutSettleLost(h)
    \/ \E h \in HandlerIds, ok \in BOOLEAN : CashoutCreditUser(h, ok)
    \/ \E h \in HandlerIds : CashoutCommit(h)

SpecGame == InitGame /\ [][NextGame]_vars

(* ------------------------------- claims -------------------------------- *)

\* C1: for any player and round, at most one cashOut call returns a settlement
\* (a win or a loss); every later cashOut of that player in that round fails
\* with "Already cashed out".
C1_CashOutSettlesAtMostOnce ==
    \A p \in Players :
        \A i, j \in 1 .. Len(hist[p]) :
            (i < j /\ hist[p][i] \in {"win", "loss"}) => hist[p][j] = "already"

\* C2: of the cashOut calls of one player on a running round below the crash point,
\* in whatever order they run, exactly one settles and sets cashedOut, and every
\* other one fails with "Already cashed out": no two of them see cashedOut = false.
C2_WinLatchesCashedOut ==
    \A p \in Players :
        \A i \in 1 .. Len(hist[p]) :
            hist[p][i] = "win" =>
                /\ currentRound # NoRound
                /\ p \in DOMAIN currentRound.players
                /\ currentRound.players[p].cashedOut
                /\ \A j \in 1 .. Len(hist[p]) : j # i => (j > i /\ hist[p][j] = "already")

\* C2, its case: a win followed by a second call that was turned away
C2_SecondCallRejected ==
    \E p \in Players :
        /\ hist[p] = <<"win", "already">>
        /\ ret = Threw("cashOut", p, "Already cashed out")

C4_LossAtOrAfterCrash ==
    [][\A p \in Players :
         (/\ ret'.op = "cashOut"
          /\ ret'.player = p
          /\ currentRound # NoRound
          /\ p \in DOMAIN currentRound.players)
         => LET m == computeMultiplier(currentRound.startedAt)
                reached == m >= currentRound.crashPoint \/ currentRound.status = "crashed"
            IN  /\ (~currentRound.players[p].cashedOut /\ reached)
                     => /\ ret'.val = [win |-> FALSE, payout |-> 0,
                                       multiplier |-> currentRound.crashPoint]
                        /\ currentRound'.status = "crashed"
                /\ ("win" \in DOMAIN ret'.val /\ ret'.val.win)
                     => /\ ~reached
                        /\ ret'.val.multiplier < currentRound.crashPoint
                        /\ currentRound'.status = "running"]_vars

\* C4, its case: a cashOut at the crash point, before the crash timer is due, lost
\* and crashed the round
C4_LostAtCrashPoint ==
    /\ currentRound # NoRound
    /\ ret.op = "cashOut"
    /\ ret.val = [win |-> FALSE, payout |-> 0, multiplier |-> currentRound.crashPoint]
    /\ currentRound.status = "crashed"
    /\ currentRound.endedAt = now
    /\ now < currentRound.startedAt + crashDelayFromPoint(currentRound.crashPoint)

\* C5: a cashOut of a joined player who has not cashed out, on a running round whose
\* multiplier m is below the crash point, returns {win: true, payout, multiplier: m}
\* with payout = betAmount * m to the nearest hundredth, and books cashedOut = true
\* and that payout on the position (bet 10.00 at 1.20 under crash point 1.50: 12.00).
C5_WinBelowCrashPoint ==
    [][\A p \in Players :
         (/\ ret'.op = "cashOut"
          /\ ret'.player = p
          /\ currentRound # NoRound
          /\ p \in DOMAIN currentRound.players
          /\ ~currentRound.players[p].cashedOut
          /\ currentRound.status = "running"
          /\ computeMultiplier(currentRound.startedAt) < currentRound.crashPoint)
         => LET m == computeMultiplier(currentRound.startedAt)
                bet == currentRound.players[p].betAmount
            IN  /\ DOMAIN ret'.val = {"win", "payout", "multiplier"}
                /\ ret'.val.win
                /\ ret'.val.multiplier = m
                /\ 100 * ret'.val.payout - bet * m \in (0 - 49) .. 50
                /\ ((bet = 1000 /\ m = 120) => ret'.val.payout = 1200)
                /\ currentRound'.players[p].cashedOut
                /\ currentRound'.players[p].payout = ret'.val.payout
                /\ currentRound'.players[p].cashedMultiplier = m
                /\ currentRound'.status = "running"]_vars

\* C5, its case: bet 10.00 cashed out at 1.20 in a round that crashes at 1.50
C5_TwelveAtOnePointTwo ==
    \E p \in Players :
        /\ currentRound # NoRound
        /\ currentRound.crashPoint = 150
        /\ p \in DOMAIN currentRound.players
        /\ currentRound.players[p].betAmount = 1000
        /\ currentRound.players[p].cashedOut
        /\ currentRound.players[p].payout = 1200
        /\ ret = Returned("cashOut", p, [win |-> TRUE, payout |-> 1200, multiplier |-> 120])

\* C6: while a round is running, nothing getRoundStatus, joinRound or cashOut returns
\* holds the round's serverSeed or its crashPoint; a successful joinRound returns
\* {roundId, serverSeedHash, startedAt} and nothing else.
C6_NoSeedNoCrashPointWhileRunning ==
    (/\ currentRound # NoRound
     /\ currentRound.status = "running"
     /\ ret.op \in {"getRoundStatus", "joinRound", "cashOut"})
    => /\ DOMAIN ret.val \cap {"serverSeed", "crashPoint"} = {}
       /\ "multiplier" \in DOMAIN ret.val => ret.val.multiplier < currentRound.crashPoint
       /\ "serverSeedHash" \in DOMAIN ret.val
            => /\ ret.val.serverSeedHash = Sha256Hex(currentRound.serverSeed)
               /\ ret.val.serverSeedHash # currentRound.serverSeed
       /\ (ret.op = "joinRound" /\ "error" \notin DOMAIN ret.val)
            => DOMAIN ret.val = {"roundId", "serverSeedHash", "startedAt"}

\* C6, its case: a player has just joined the running round
C6_JoinedRunningRound ==
    /\ currentRound # NoRound
    /\ currentRound.status = "running"
    /\ ret.op = "joinRound"
    /\ ret.player \in DOMAIN currentRound.players
    /\ ret.val = [roundId |-> currentRound.roundId,
                  serverSeedHash |-> currentRound.serverSeedHash,
                  startedAt |-> currentRound.startedAt]

\* C7: the roundStarted event broadcast to the clients carries roundId, commitIdx,
\* serverSeedHash and startedAt, and never the round's crash point.
C7_RoundStartedWithholdsCrashPoint ==
    \A b \in broadcasts :
        b.event = "roundStarted" =>
            /\ {"roundId", "commitIdx", "serverSeedHash", "startedAt"} \subseteq DOMAIN b.data
            /\ "crashPoint" \notin DOMAIN b.data

\* C8: the crash broadcast never holds the round's serverSeed, and the reveal query
\* of a round returns the seed only once the round has crashed and its crash has
\* been persisted; before that it returns no seed.
C8_SeedRevealedOnlyAfterPersistedCrash ==
    /\ \A b \in broadcasts : b.event = "crash" => "serverSeed" \notin DOMAIN b.data
    /\ \A i \in RoundIds :
         "serverSeed" \in DOMAIN RevealResponse(i)
            => /\ fx[i].crashed = 1
               /\ fx[i].persisted = 1
               /\ (currentRound # NoRound /\ currentRound.roundId = i)
                    => currentRound.status = "crashed"
    /\ (ret.op = "reveal" /\ "serverSeed" \in DOMAIN ret.val)
         => /\ fx[ret.val.roundId].crashed = 1
            /\ fx[ret.val.roundId].persisted = 1

\* C8, its case: the reveal query has answered with the seed of a crashed round whose
\* crash broadcast went out
C8_SeedRevealed ==
    /\ ret.op = "reveal"
    /\ "serverSeed" \in DOMAIN ret.val
    /\ ret.val.serverSeed # NoSeed
    /\ \E b \in broadcasts : b.event = "crash" /\ b.data.roundId = ret.val.roundId

\* C9: for every crashed round whose seed has been revealed, SHA256 of the revealed
\* seed is the serverSeedHash published for the round, with or without a master key.
C9_RevealedSeedMatchesHash ==
    \A i \in RoundIds :
        "serverSeed" \in DOMAIN RevealResponse(i)
            => Sha256Hex(RevealResponse(i).serverSeed) = RevealResponse(i).serverSeedHash

\* C10: a seed commit {idx, seed_hash} is persisted before the round that uses the
\* seed starts: no round is running with a seed whose hash is not a published commit.
C10_CommitPublishedBeforeRound ==
    currentRound # NoRound
        => \E c \in seedCommits : c.seed_hash = Sha256Hex(currentRound.serverSeed)

\* C11: of two ensureNextCommitExists calls made one after the other, with no round
\* started and no other call in between, the second returns the same {idx, seed_hash}
\* as the first and writes nothing: seed_commits is the same before and after it.
C11_SecondEnsureReturnsSameCommit ==
    \A a, b \in Callers :
        (/\ ensured[a].pc = "returned"
         /\ ensured[b].pc = "returned"
         /\ ensured[b].began = ensured[a].returned + 1
         /\ ensured[b].returned = ensured[b].began + 1
         /\ \A c \in Callers \ {a, b} :
                \/ ensured[c].began = 0
                \/ ensured[c].began > ensured[b].returned
                \/ (ensured[c].returned > 0 /\ ensured[c].returned < ensured[b].began))
        => /\ ensured[b].result = ensured[a].result
           /\ ensured[b].after = ensured[b].before

\* C12: a persisted seed commit never changes: whatever ensureNextCommitExists calls
\* run, one after the other or at once, every row of seed_commits stays as it is,
\* and no idx has two rows.
C12_CommitsImmutable ==
    /\ [](\A c1, c2 \in seedCommits : c1.idx = c2.idx => c1 = c2)
    /\ [][\A c \in seedCommits : c \in seedCommits']_vars

\* C12, its case: two calls at once derived different seeds for the same idx; the
\* INSERT of the second met the row of the first, which stayed
C12_ConflictingInsertKeptFirst ==
    \E a, b \in Callers :
        /\ ensured[a].pc = "returned"
        /\ ensured[b].pc = "returned"
        /\ ensured[a].returned < ensured[b].returned
        /\ ensured[a].result.idx = ensured[b].result.idx
        /\ ensured[a].result.seed_hash # ensured[b].result.seed_hash
        /\ ensured[a].result \in seedCommits
        /\ ensured[b].result \notin seedCommits

\* C13: joinRound called when there is no current round, or the current round is not
\* running (waiting, crashed, after dispose), fails with "No active running round"
\* and inserts no position.
C13_JoinNeedsRunningRound ==
    [][\A p \in Players \cup {""}, b \in BetInputs :
         (/\ ret'.op = "joinRound"
          /\ ret'.player = p
          /\ currentRound = NoRound \/ currentRound.status # "running"
          /\ joinRound(p, JsNumber(b)))
         => /\ ret' = Threw("joinRound", p, "No active running round")
            /\ currentRound' = currentRound]_vars

\* C13, its case: a join was turned away by a crashed round that holds no position of
\* the caller
C13_JoinRefusedByCrashedRound ==
    /\ currentRound # NoRound
    /\ currentRound.status = "crashed"
    /\ ret.op = "joinRound"
    /\ ret.val = [error |-> "No active running round"]
    /\ ret.player \in Players
    /\ ret.player \notin DOMAIN currentRound.players

\* C14 as stated: a second joinRound by a player who is in the current round's player
\* map fails with "Player already joined this round" and leaves the position as it
\* is, whatever the bet amount of the second call and whether or not the player has
\* cashed out.
C14_SecondJoinAlreadyJoined ==
    [][\A p \in Players, b \in BetInputs :
         (/\ ret'.op = "joinRound"
          /\ ret'.player = p
          /\ currentRound # NoRound
          /\ p \in DOMAIN currentRound.players
          /\ joinRound(p, JsNumber(b)))
         => /\ ret' = Threw("joinRound", p, "Player already joined this round")
            /\ currentRound' = currentRound]_vars

\* C14 amended: a second joinRound by a player who is in the current round's player
\* map always fails and leaves the position as it is; it fails with "Player already
\* joined this round" when the round is running and the bet amount is valid, with
\* "Invalid bet amount" when the round is running and the amount is not valid, and
\* with "No active running round" when the round has crashed.
C14_SecondJoinFails ==
    [][\A p \in Players, b \in BetInputs :
         (/\ ret'.op = "joinRound"
          /\ ret'.player = p
          /\ currentRound # NoRound
          /\ p \in DOMAIN currentRound.players
          /\ joinRound(p, JsNumber(b)))
         => /\ currentRound' = currentRound
            /\ ret' = Threw("joinRound", p,
                            IF currentRound.status # "running"
                            THEN "No active running round"
                            ELSE IF b <= 0 THEN "Invalid bet amount"
                            ELSE "Player already joined this round")]_vars

\* C14, its case: a player who has cashed out tried to join again and was turned away
C14_RejoinAfterCashOutRefused ==
    /\ currentRound # NoRound
    /\ currentRound.status = "running"
    /\ ret.op = "joinRound"
    /\ ret.val = [error |-> "Player already joined this round"]
    /\ ret.player \in DOMAIN currentRound.players
    /\ currentRound.players[ret.player].cashedOut
    /\ currentRound.players[ret.player].payout > 0

\* C15: joinRound accepts a bet amount only if it is a finite positive number: every
\* position in the player map holds a positive, finite bet (zero, negative, NaN,
\* infinite and missing amounts are refused with "Invalid bet amount").
C15_OnlyFinitePositiveBets ==
    currentRound # NoRound =>
        \A p \in DOMAIN currentRound.players :
            /\ currentRound.players[p].betAmount > 0
            /\ currentRound.players[p].betAmount < Infinity

\* C16: cashOut for a player who has no position in the current round fails with
\* "Player not in round", pays nothing, and leaves the round (its status, its player
\* map) and the timers as they are.
C16_CashOutNeedsPosition ==
    [][\A p \in Players :
         (/\ ret'.op = "cashOut"
          /\ ret'.player = p
          /\ currentRound # NoRound
          /\ p \notin DOMAIN currentRound.players)
         => /\ ret' = Threw("cashOut", p, "Player not in round")
            /\ currentRound' = currentRound
            /\ timers' = timers
            /\ fx' = fx]_vars

\* C16, its case: the call was refused at a moment when the multiplier had reached
\* the crash point, and the round is still running with its crash timer pending
C16_RefusedWithoutCrashing ==
    /\ currentRound # NoRound
    /\ ret.op = "cashOut"
    /\ ret.val = [error |-> "Player not in round"]
    /\ ret.player \notin DOMAIN currentRound.players
    /\ DOMAIN currentRound.players # {}
    /\ currentRound.status = "running"
    /\ computeMultiplier(currentRound.startedAt) >= currentRound.crashPoint
    /\ currentRound.timer \in timers

\* C17: the crashPoint of a round is set when the round is created and is the same in
\* every later state of the round, through joins, cash-outs, status queries, the
\* crash and the timers; what is read after the crash is that value.
C17_CrashPointFixed ==
    /\ [][(/\ currentRound # NoRound
           /\ currentRound' # NoRound
           /\ currentRound'.roundId = currentRound.roundId)
          => currentRound'.crashPoint = currentRound.crashPoint]_vars
    /\ []((/\ currentRound # NoRound
           /\ currentRound.status = "crashed"
           /\ ret.op \in {"getRoundStatus", "cashOut"}
           /\ "multiplier" \in DOMAIN ret.val
           /\ ~("win" \in DOMAIN ret.val /\ ret.val.win))
          => ret.val.multiplier = currentRound.crashPoint)

\* C17, its case: a round with a cashed-out player crashed, and a status query made
\* when the live multiplier is past the crash point reads the crash point
C17_CrashPointReadAfterCrash ==
    /\ currentRound # NoRound
    /\ currentRound.status = "crashed"
    /\ \E p \in DOMAIN currentRound.players : currentRound.players[p].cashedOut
    /\ ret.op = "getRoundStatus"
    /\ ret.val.multiplier = currentRound.crashPoint
    /\ computeMultiplier(currentRound.startedAt) > currentRound.crashPoint
    /\ currentRound.endedAt < now

C19_DisposedForGood ==
    /\ [](disposed =>
            /\ timers = {}
            /\ currentRound = NoRound
            /\ ret.op = "getRoundStatus" => ret.val = [status |-> "waiting"]
            /\ ret.op = "joinRound" => ret.val = [error |-> "No active running round"]
            /\ ret.op = "cashOut" => ret.val = [error |-> "No active round"])
    /\ [][disposed =>
            /\ disposed'
            /\ roundSeq' = roundSeq
            /\ rndSeq' = rndSeq]_vars
    /\ [][(ret'.op = "dispose" /\ ~disposed /\ currentRound # NoRound) =>
            /\ disposed'
            /\ currentRound.timer \notin timers'
            /\ currentRound.nextRoundTimer \notin timers']_vars

\* C19, its case: the engine was disposed while a round was running with its crash
\* timer pending, and a later join found no round
C19_DisposedWhileRunning ==
    /\ disposed
    /\ roundSeq >= 1
    /\ fx[roundSeq].crashed = 0
    /\ timers = {}
    /\ ret.op = "joinRound"

\* C20: dispose() is idempotent: a second or later call raises no error and leaves the
\* engine as the first call left it: disposed, no current round, no pending timer, no
\* new round.
C20_DisposeIdempotent ==
    /\ [](ret.op = "dispose" =>
            /\ "error" \notin DOMAIN ret.val
            /\ disposed
            /\ currentRound = NoRound
            /\ timers = {})
    /\ [][(ret'.op = "dispose" /\ disposed) =>
            /\ "error" \notin DOMAIN ret'.val
            /\ UNCHANGED <<disposed, currentRound, timers, roundSeq, rndSeq, nextSeed,
                           hist, fx, now, threads>>]_vars

\* C20, its case: dispose() was called on an engine that had run a round and was
\* disposed already
C20_DisposedTwice ==
    /\ ret.op = "dispose"
    /\ ret.val = [done |-> TRUE, logged |-> "game.dispose.already_disposed"]
    /\ roundSeq >= 1
    /\ disposed

C22_PersistFailureIsolated ==
    /\ [][errorLog' # errorLog =>
            /\ UNCHANGED <<currentRound, timers, disposed, roundSeq, nextSeed, hist, now>>
            /\ ret' = NoRet
            /\ \A th \in threads' \ threads : th.kind = "roundStarted"]_vars
    /\ [](\A e \in errorLog :
            /\ e.line = "persistRoundStart.error" =>
                 \E b \in broadcasts : b.event = "roundStarted" /\ b.data.roundId = e.roundId
            /\ e.line = "persistRoundCrash.error" =>
                 /\ \E b \in broadcasts : b.event = "crash" /\ b.data.roundId = e.roundId
                 /\ fx[e.roundId].crashed = 1
                 /\ fx[e.roundId].persisted = 0
                 /\ \/ disposed
                    \/ roundSeq > e.roundId
                    \/ /\ currentRound # NoRound
                       /\ currentRound.roundId = e.roundId
                       /\ currentRound.status = "crashed"
                       /\ currentRound.nextRoundTimer \in timers)
    /\ \A i \in RoundIds :
          (i < MaxRounds /\ ErrorLine("persistRoundCrash.error", i) \in errorLog)
             ~> (disposed \/ roundSeq > i)

\* C22, its case: both persistence calls of round 1 failed, its crash was broadcast,
\* and round 2 runs
C22_SecondRoundAfterFailures ==
    /\ ErrorLine("persistRoundStart.error", 1) \in errorLog
    /\ ErrorLine("persistRoundCrash.error", 1) \in errorLog
    /\ 1 \notin DOMAIN rounds
    /\ \E b \in broadcasts : b.event = "crash" /\ b.data.roundId = 1
    /\ currentRound # NoRound
    /\ currentRound.roundId = 2
    /\ currentRound.status = "running"

\* C23: when round creation fails part-way (seed generation throws), the engine is left
\* in its prior valid state: the previous round object with its status and its pending
\* timers are as before the attempt, and no partially built round is visible to
\* getRoundStatus, joinRound or cashOut.
C23_FailedCreationKeepsPriorRound ==
    [][errorLog' # errorLog =>
          /\ currentRound' = currentRound
          /\ roundSeq' = roundSeq
          /\ \A t \in timers : t.kind = "crash" => t \in timers']_vars

\* C24: every round consumes the earliest seed commit not yet consumed by an earlier
\* round: commits are consumed in increasing index order, no commit is skipped
\* (including across a restart) and no commit is used by two rounds.
C24_EarliestCommitConsumed ==
    \A n \in 1 .. Len(consumed) :
        /\ consumed[n] # NoCommitIdx
        /\ \A k \in 1 .. n - 1 : consumed[k] < consumed[n]
        /\ \A j \in 1 .. consumed[n] - 1 :
              CommitsAt(j) # {} => \E k \in 1 .. n - 1 : consumed[k] = j

\* C25: the indices of the rows of seed_commits are unique and always form the range
\* 1..n: the first commit has index 1 and each new commit has the index one above the
\* maximum before it, whatever calls of ensureNextCommitExists run, one after the
\* other or at once.
C25_IndicesContiguous ==
    /\ [](/\ {c.idx : c \in seedCommits} = 1 .. Cardinality(seedCommits)
          /\ \A c1, c2 \in seedCommits : c1.idx = c2.idx => c1 = c2)
    /\ [][seedCommits' # seedCommits =>
            \E c \in seedCommits' :
                /\ c.idx = MaxIdx + 1
                /\ seedCommits' = seedCommits \cup {c}]_vars

\* C25, its case: two calls that ran at once were answered with the same index and a
\* later call created the next one
C25_TwoCommitsAfterRace ==
    /\ {c.idx : c \in seedCommits} = {1, 2}
    /\ \E a, b \in Callers :
          /\ a # b
          /\ ensured[a].pc = "returned"
          /\ ensured[b].pc = "returned"
          /\ ensured[a].result.idx = 1
          /\ ensured[b].result.idx = 1
          /\ ensured[a].began < ensured[b].returned
          /\ ensured[b].began < ensured[a].returned

C27_MultiplierMonotonic ==
    /\ [](ret.op = "computeMultiplier" => ret.val.multiplier >= 100)
    /\ [][(ret.op = "computeMultiplier" /\ ret'.op = "computeMultiplier") =>
            /\ ret.val.at <= ret'.val.at
            /\ ret.val.multiplier <= ret'.val.multiplier]_vars

\* C27, its case: the multiplier computed 115 ms after a start at 7, where the sum
\* 1.115 lies between two hundredths, is 1.11
C27_ComputedAtTie ==
    /\ ret.op = "computeMultiplier"
    /\ currentRound.startedAt = 7
    /\ ret.val.at = 122
    /\ ret.val.multiplier = 111

\* C28: within a round a position is created only by joinRound and changed at most
\* once afterwards, by cashOut: its cashedOut flag only goes from false to true and is
\* never reset, and its betAmount and, once recorded, its payout and cash-out
\* multiplier never change.
C28_PositionWrittenOnce ==
    [][(/\ currentRound # NoRound
        /\ currentRound' # NoRound
        /\ currentRound'.roundId = currentRound.roundId)
       => /\ DOMAIN currentRound.players \subseteq DOMAIN currentRound'.players
          /\ \A p \in DOMAIN currentRound'.players \ DOMAIN currentRound.players :
                /\ ret' = Returned("joinRound", p, JoinResponse(currentRound))
                /\ ~currentRound'.players[p].cashedOut
                /\ currentRound'.players[p].payout = NoAmount
          /\ \A p \in DOMAIN currentRound.players :
                LET old == currentRound.players[p]
                    new == currentRound'.players[p]
                IN  /\ new.betAmount = old.betAmount
                    /\ old.cashedOut => new = old
                    /\ new # old =>
                          /\ ret'.op = "cashOut"
                          /\ ret'.player = p
                          /\ ~old.cashedOut
                          /\ new.cashedOut
                          /\ old.payout = NoAmount]_vars

\* C28, its case: p1 cashed out and won, the round then crashed under the losing
\* cashOut of p2, and the position of p1 is as the win left it
C28_WinKeptThroughCrash ==
    /\ currentRound # NoRound
    /\ currentRound.status = "crashed"
    /\ ret = Returned("cashOut", "p2", LossResult(currentRound))
    /\ "p1" \in DOMAIN currentRound.players
    /\ currentRound.players["p1"].cashedOut
    /\ currentRound.players["p1"].payout
          = computePayout(currentRound.players["p1"].betAmount,
                          currentRound.players["p1"].cashedMultiplier)
    /\ hist["p1"] = <<"win", "already">>

\* C29: a crash timer acts only on the round it was armed for: when it fires it
\* crashes a round only if that round is still the current round and still running,
\* and a timer armed for an earlier round never crashes a later round.
C29_CrashTimerBoundToRound ==
    /\ [](\A t \in timers :
            t.kind = "crash" =>
                /\ currentRound # NoRound
                /\ currentRound.roundId = t.roundId
                /\ currentRound.status = "running"
                /\ currentRound.timer = t)
    /\ [][\A t \in timers :
            (/\ t.kind = "crash"
             /\ now >= t.fireAt
             /\ ret' = NoRet
             /\ t \notin timers'
             /\ CrashTimerFires(t))
            => /\ currentRound.roundId = t.roundId
               /\ currentRound'.roundId = t.roundId
               /\ currentRound.status = "running"
               /\ currentRound'.status = "crashed"
               /\ fx'[t.roundId].crashed = fx[t.roundId].crashed + 1
               /\ \A i \in RoundIds \ {t.roundId} : fx'[i] = fx[i]]_vars

\* C29, its case: the second round was crashed by its own timer, the first one having
\* been crashed by a status query before its timer was due
C29_SecondRoundCrashedByTimer ==
    /\ currentRound # NoRound
    /\ currentRound.roundId = 2
    /\ currentRound.status = "crashed"
    /\ currentRound.endedAt = currentRound.startedAt + crashDelayFromPoint(currentRound.crashPoint)
    /\ ret = NoRet
    /\ fx[1].crashed = 1
    /\ fx[2].crashed = 1
    /\ currentRound.startedAt < 5100

\* C30: the crashPoint of every round, as stored after rounding to 2 decimals, lies in
\* [1.10, 1.70) or in [2.00, 5.00), and so is never below 1.00.
C30_CrashPointInRanges ==
    currentRound # NoRound =>
        /\ currentRound.crashPoint >= 100
        /\ \/ (currentRound.crashPoint >= 110 /\ currentRound.crashPoint < 170)
           \/ (currentRound.crashPoint >= 200 /\ currentRound.crashPoint < 500)

\* C35 as stated: joinRound succeeds only while the round can still be won: it inserts
\* no position into a round whose computed multiplier has already reached the crash
\* point, also when the crash timer has not fired yet.
C35_JoinOnlyBelowCrashPoint ==
    [][\A p \in Players, b \in BetInputs :
         (/\ ret'.op = "joinRound"
          /\ ret'.player = p
          /\ "error" \notin DOMAIN ret'.val
          /\ joinRound(p, JsNumber(b))
          /\ p \in DOMAIN currentRound'.players)
         => computeMultiplier(currentRound.startedAt) < currentRound.crashPoint]_vars

\* C36: the player map of a crashed round is frozen for as long as that round stays
\* the current round: no step that ends with the round crashed (the crash itself, a
\* joinRound, cashOut or getRoundStatus call, a timer, the clock) adds or removes a
\* position or changes a position's betAmount, cashedOut or payout.
C36_CrashedPlayerMapFrozen ==
    [][(/\ currentRound # NoRound
        /\ currentRound' # NoRound
        /\ currentRound'.roundId = currentRound.roundId
        /\ currentRound'.status = "crashed")
       => currentRound'.players = currentRound.players]_vars

\* C36, its case: a player holding an open position in a crashed round has called
\* cashOut, was told the loss, and the position is still open
C36_LossToldOnCrashedRound ==
    /\ currentRound # NoRound
    /\ currentRound.status = "crashed"
    /\ ret.op = "cashOut"
    /\ ret.player \in DOMAIN currentRound.players
    /\ "win" \in DOMAIN ret.val
    /\ ret.val.win = FALSE
    /\ currentRound.players[ret.player].cashedOut = FALSE
    /\ now > currentRound.endedAt

\* C37: at any time at most one crash timer and at most one next-round timer are
\* pending; a pending crash timer is the timer of the current round and that round is
\* running; a pending next-round timer is the timer of the current round and that
\* round is crashed.
C37_OneTimerOfEachKind ==
    /\ Cardinality({t \in timers : t.kind = "crash"}) <= 1
    /\ Cardinality({t \in timers : t.kind = "next"}) <= 1
    /\ \A t \in timers :
           /\ currentRound # NoRound
           /\ t.roundId = currentRound.roundId
           /\ t.kind = "crash" => (currentRound.status = "running" /\ currentRound.timer = t)
           /\ t.kind = "next" => (currentRound.status = "crashed" /\ currentRound.nextRoundTimer = t)

\* C37, its case: the second round has crashed and its next-round timer is the only
\* pending timer
C37_OnlyNextTimerOfSecondRound ==
    /\ currentRound # NoRound
    /\ currentRound.roundId = 2
    /\ currentRound.status = "crashed"
    /\ timers = {currentRound.nextRoundTimer}
    /\ currentRound.nextRoundTimer # NoTimer

\* C38: every result of getRoundStatus with status 'running' carries a multiplier
\* strictly below the crash point of the round and a null endedAt; every result with
\* status 'crashed' carries a multiplier equal to the crash point and a non-null
\* endedAt.
C38_StatusResultConsistent ==
    [][(/\ ret'.op = "getRoundStatus"
        /\ currentRound # NoRound
        /\ getRoundStatus)
       => /\ ret'.val.roundId = currentRound'.roundId
          /\ ret'.val.status \in {"running", "crashed"}
          /\ ret'.val.status = "running"
                => /\ ret'.val.multiplier < currentRound'.crashPoint
                   /\ ret'.val.endedAt = NoTime
          /\ ret'.val.status = "crashed"
                => /\ ret'.val.multiplier = currentRound'.crashPoint
                   /\ ret'.val.endedAt # NoTime]_vars

\* C38, its case: a status query made when the multiplier had just reached the crash
\* point, with the crash timer still pending before the call, answered 'crashed'
C38_QueryCrashedRoundAtThreshold ==
    /\ ret.op = "getRoundStatus"
    /\ currentRound # NoRound
    /\ ret.val.status = "crashed"
    /\ ret.val.endedAt = now
    /\ computeMultiplier(currentRound.startedAt) = currentRound.crashPoint
    /\ now < currentRound.startedAt + crashDelayFromPoint(currentRound.crashPoint)

\* C39 as stated: the {idx, seed_hash} a call of ensureNextCommitExists returns is
\* the commit persisted for that index, also when calls run concurrently and when no
\* master key is configured.
C39_ReturnedCommitIsPersisted ==
    \A c \in Callers :
        ensured[c].pc = "returned" => ensured[c].result \in seedCommits

Credited(u, r) ==
    {h \in HandlerIds : /\ handlers[h].pc = "done"
                        /\ handlers[h].route = "cashout"
                        /\ handlers[h].user = u
                        /\ handlers[h].response.status = 200
                        /\ "wonRound" \in DOMAIN handlers[h]
                        /\ handlers[h].wonRound = r}

RECURSIVE SumOf(_, _)
\* the sum of a column over a set of rows
SumOf(rows, column) ==
    IF rows = {} THEN 0
    ELSE LET row == CHOOSE x \in rows : TRUE
         IN  row[column] + SumOf(rows \ {row}, column)

\* the stakes of the committed bets of a user that were not refunded
Staked(u) == SumOf({b \in bets : b.user_id = u /\ b.status # "refunded"}, "bet_amount")

\* the payouts of the requests POST /cashout answered with success, one per request
PaidOut(u) ==
    SumOf({[request |-> h, payout |-> handlers[h].engineResult.payout] :
               h \in UNION {Credited(u, r) : r \in RoundIds}}, "payout")

\* C31: the payout of a cash-out is credited to the balance at most once per user and
\* round, however the POST /cashout requests of the user interleave or repeat: at most
\* one request per user and engine round is answered with success, every cashed bet
\* belongs to one such request, and the balance is the starting balance minus the
\* stakes of the bets not refunded plus the payout of each such request, once.
C31_PayoutCreditedAtMostOnce ==
    \A u \in RouteUsers :
        /\ \A r \in RoundIds : Cardinality(Credited(u, r)) <= 1
        /\ \A b \in bets :
               (b.user_id = u /\ b.status = "cashed")
               => \E r \in RoundIds : \E h \in Credited(u, r) :
                      /\ handlers[h].betId = b.id
                      /\ handlers[h].engineResult.payout = b.payout
        /\ users[u] = StartingBalance - Staked(u) + PaidOut(u)

\* C31, its case: a first cash-out was credited, and a later POST /cashout of the user
\* in the same round passed the rate limiter and found no active bet left
C31_SecondCashoutFoundNoBet ==
    \E h1, h2 \in HandlerIds :
        /\ currentRound # NoRound
        /\ h1 \in Credited("p1", currentRound.roundId)
        /\ h2 > h1
        /\ handlers[h2].pc = "done"
        /\ handlers[h2].route = "cashout"
        /\ handlers[h2].response = [status |-> 400,
                                    body |-> "No active bet found for current round"]

\* C32 as stated: when a POST /cashout that reached the engine has completed, the
\* engine and the database agree: the engine recorded the win of the position exactly
\* if the bet row is 'cashed' with the payout credited.
C32_EngineAndDatabaseAgree ==
    \A h \in HandlerIds :
        (/\ handlers[h].pc = "done"
         /\ handlers[h].route = "cashout"
         /\ "engineResult" \in DOMAIN handlers[h])
        => (handlers[h].engineResult.win
            <=> \E b \in bets : /\ b.id = handlers[h].betId
                                /\ b.status = "cashed"
                                /\ b.payout = handlers[h].engineResult.payout)

\* C33 as stated: when POST /start succeeds, the bet row it inserted carries the
\* roundId of the engine round the player was joined to.
C33_BetRowNamesJoinedRound ==
    \A h \in HandlerIds :
        (/\ handlers[h].pc = "done"
         /\ handlers[h].route = "start"
         /\ handlers[h].response.status = 200)
        => \E b \in bets : /\ b.id = handlers[h].response.body.betId
                           /\ b.round_id = handlers[h].response.body.roundId

\* C34 as stated: when joinRound has failed after the COMMIT of POST /start and the
\* request has completed, the bet row is 'refunded' and the stake is back on the
\* balance (the request answers 500 "Failed to join round").
C34_FailedJoinRefunded ==
    \A h \in HandlerIds :
        (/\ handlers[h].pc = "done"
         /\ handlers[h].route = "start"
         /\ handlers[h].response = [status |-> 500, body |-> "Failed to join round"])
        => \E b \in bets : /\ b.id = handlers[h].betId
                           /\ b.status = "refunded"

====
